---------------------------- MODULE Spec2Model ----------------------------
(***************************************************************************)
(* Unstable Unicorns rules engine: the turn/phase state machine, the       *)
(* effect resolution stack and the interrupt ("Neigh") chain, as           *)
(* implemented by game/game_state.py, game/action.py,                      *)
(* game/effect_handler.py and game/game_engine.py.                         *)
(*                                                                         *)
(* A GameState is a record; the Python functions that mutate it in place   *)
(* are operators from a record to the mutated record.  Card instances are  *)
(* the integers 1..NumCards, None is 0 for a card and -1 for a player.     *)
(*                                                                         *)
(* game/action.py annotates _get_valid_targets with typing.Any without     *)
(* importing it: an interpreter that evaluates annotations when a function *)
(* is defined raises NameError while loading the module.  The model is of  *)
(* the functions as they run once the module has loaded.                   *)
(***************************************************************************)
EXTENDS Integers, Sequences, FiniteSets, TLC

(***************************************************************************)
(* Bounds of the model.                                                    *)
(***************************************************************************)
\* turns played before the exploration of a game stops
MaxTurn == 2

NoCard == 0
NoPlayer == -1

(***************************************************************************)
(* Sequence helpers (Python list operations).                              *)
(***************************************************************************)
Range(seq) == {seq[i] : i \in DOMAIN seq}

\* x in list
In(x, seq) == \E i \in DOMAIN seq : seq[i] = x

\* index of the first occurrence of x (x must occur)
FirstIdx(x, seq) == CHOOSE i \in DOMAIN seq : seq[i] = x /\ \A j \in 1..(i-1) : seq[j] # x

\* list.remove(x): drops the first occurrence
Remove(seq, x) ==
    IF ~In(x, seq) THEN seq
    ELSE LET k == FirstIdx(x, seq)
         IN  SubSeq(seq, 1, k-1) \o SubSeq(seq, k+1, Len(seq))

\* list.pop(): drops the last element
Front(seq) == SubSeq(seq, 1, Len(seq) - 1)
Last(seq) == seq[Len(seq)]

Count(x, seq) == Cardinality({i \in DOMAIN seq : seq[i] = x})

RECURSIVE FlattenSeq(_)
FlattenSeq(ss) == IF ss = <<>> THEN <<>> ELSE ss[1] \o FlattenSeq(Tail(ss))

RECURSIVE PermsOf(_)
PermsOf(S) == IF S = {} THEN {<<>>}
              ELSE UNION {{<<x>> \o p : p \in PermsOf(S \ {x})} : x \in S}

(***************************************************************************)
(* The card catalogue: the card instances of the model and, for each, the  *)
(* Card.id of its template.  Templates without an effect_id (Baby and      *)
(* Basic Unicorns) have effect_id None.                                    *)
(***************************************************************************)
CardIdOf ==
    << "baby_red", "baby_pink", "baby_orange",
       "basic_red", "basic_red", "basic_red", "basic_orange", "basic_orange",
       "basic_orange", "basic_yellow",
       "unicorn_phoenix", "stabby_the_unicorn", "greedy_flying_unicorn",
       "seductive_unicorn",
       "unicorn_poison", "good_deal",
       "glitter_bomb", "yay",
       "barbed_wire", "slowdown",
       "neigh", "neigh", "super_neigh",
       "rhinocorn", "rainbow_aura", "magical_kittencorn", "caffeine_overload",
       "nanny_cam", "pandamonium", "unicorn_swap", "magical_flying_unicorn",
       "back_kick", "queen_bee_unicorn", "broken_stable" >>

NumCards == Len(CardIdOf)
AllCards == 1..NumCards

\* Card.card_type of a template
CardTypeOfId(id) ==
    CASE id \in {"baby_red", "baby_pink", "baby_orange"} -> "BABY_UNICORN"
      [] id \in {"basic_red", "basic_orange", "basic_yellow"} -> "BASIC_UNICORN"
      [] id \in {"unicorn_phoenix", "stabby_the_unicorn", "greedy_flying_unicorn",
                 "seductive_unicorn", "magical_kittencorn", "rhinocorn",
                 "queen_bee_unicorn", "ginormous_unicorn", "classy_narwhal",
                 "magical_flying_unicorn"} -> "MAGICAL_UNICORN"
      [] id \in {"unicorn_poison", "good_deal", "mystical_vortex", "unicorn_swap",
                 "back_kick"} -> "MAGIC"
      [] id \in {"glitter_bomb", "yay", "rainbow_aura", "rainbow_lasso",
                 "caffeine_overload", "double_dutch"} -> "UPGRADE"
      [] id \in {"barbed_wire", "slowdown", "pandamonium", "blinding_light",
                 "broken_stable", "nanny_cam"} -> "DOWNGRADE"
      [] id \in {"neigh", "super_neigh"} -> "INSTANT"

\* Card.effect_id of a template ("" is None)
EffectIdOfId(id) ==
    IF CardTypeOfId(id) \in {"BABY_UNICORN", "BASIC_UNICORN"} THEN "" ELSE id

card_type(c) == CardTypeOfId(CardIdOf[c])
effect_id(c) == EffectIdOfId(CardIdOf[c])

\* Card.is_unicorn
is_unicorn(c) == card_type(c) \in {"BABY_UNICORN", "BASIC_UNICORN", "MAGICAL_UNICORN"}


(***************************************************************************)
(* cards/effects.py: the effect registry.  An EffectAction is a record     *)
(* [action_type, target_type, optional, value, condition]; "" is the None  *)
(* condition.  EFFECT_REGISTRY.get returns NoEffect for an unknown id.     *)
(***************************************************************************)
EffectAction(at, tt, opt, val, cond) ==
    [action_type |-> at, target_type |-> tt, optional |-> opt,
     value |-> val, condition |-> cond]

NoEffect == [exists |-> FALSE, trigger |-> "NONE", condition |-> "", actions |-> <<>>]

Effect(trig, cond, acts) ==
    [exists |-> TRUE, trigger |-> trig, condition |-> cond, actions |-> acts]

EFFECT_REGISTRY(eid) ==
    CASE eid = "neigh" ->
           Effect("INSTANT", "", <<EffectAction("NEGATE", "NONE", FALSE, 1, "")>>)
      [] eid = "super_neigh" ->
           Effect("INSTANT", "", <<EffectAction("NEGATE", "NONE", FALSE, 1, "")>>)
      [] eid = "rhinocorn" ->
           Effect("BEGINNING_OF_TURN", "",
                  <<EffectAction("DESTROY", "ANY_UNICORN", TRUE, 1, ""),
                    EffectAction("SKIP_TURN", "CONTROLLER", FALSE, 1, "if_destroyed")>>)
      [] eid = "stabby_the_unicorn" ->
           Effect("ON_ENTER", "",
                  <<EffectAction("SACRIFICE", "OWN_CARD_IN_STABLE", FALSE, 1, ""),
                    EffectAction("DESTROY", "ANY_UNICORN", FALSE, 1, "")>>)
      [] eid = "unicorn_phoenix" ->
           Effect("ON_LEAVE", "",
                  <<EffectAction("DISCARD", "OWN_HAND", FALSE, 1, ""),
                    EffectAction("BRING_TO_STABLE", "SELF", FALSE, 1, "if_discarded")>>)
      [] eid = "queen_bee_unicorn" -> Effect("CONTINUOUS", "", <<>>)
      [] eid = "ginormous_unicorn" -> Effect("CONTINUOUS", "", <<>>)
      [] eid = "magical_kittencorn" -> Effect("CONTINUOUS", "", <<>>)
      [] eid = "classy_narwhal" -> Effect("CONTINUOUS", "", <<>>)
      [] eid = "seductive_unicorn" ->
           Effect("ON_ENTER", "",
                  <<EffectAction("SACRIFICE", "OWN_UNICORN", FALSE, 1, ""),
                    EffectAction("STEAL", "OTHER_UNICORN", FALSE, 1, "if_sacrificed")>>)
      [] eid = "greedy_flying_unicorn" ->
           Effect("ON_ENTER", "", <<EffectAction("DRAW", "CONTROLLER", FALSE, 1, "")>>)
      [] eid = "rainbow_aura" -> Effect("CONTINUOUS", "", <<>>)
      [] eid = "yay" -> Effect("CONTINUOUS", "", <<>>)
      [] eid = "double_dutch" -> Effect("CONTINUOUS", "", <<>>)
      [] eid = "caffeine_overload" -> Effect("CONTINUOUS", "", <<>>)
      [] eid = "glitter_bomb" ->
           Effect("END_OF_TURN", "",
                  <<EffectAction("SACRIFICE", "OWN_CARD_IN_STABLE", FALSE, 1, ""),
                    EffectAction("DESTROY", "OTHER_CARD_IN_STABLE", FALSE, 1, "if_sacrificed")>>)
      [] eid = "rainbow_lasso" ->
           Effect("BEGINNING_OF_TURN", "",
                  <<EffectAction("STEAL", "OTHER_UNICORN", FALSE, 1, ""),
                    EffectAction("SACRIFICE", "SELF", FALSE, 1, "")>>)
      [] eid = "blinding_light" -> Effect("CONTINUOUS", "", <<>>)
      [] eid = "barbed_wire" ->
           Effect("ON_ENTER", "", <<EffectAction("DESTROY", "OWN_UNICORN", FALSE, 1, "")>>)
      [] eid = "broken_stable" -> Effect("CONTINUOUS", "", <<>>)
      [] eid = "pandamonium" -> Effect("CONTINUOUS", "", <<>>)
      [] eid = "slowdown" -> Effect("CONTINUOUS", "", <<>>)
      [] eid = "nanny_cam" -> Effect("CONTINUOUS", "", <<>>)
      [] eid = "back_kick" ->
           Effect("ON_PLAY", "",
                  <<EffectAction("RETURN_TO_HAND", "ANY_CARD_IN_STABLE", FALSE, 1, "")>>)
      [] eid = "good_deal" ->
           Effect("ON_PLAY", "",
                  <<EffectAction("DRAW", "CONTROLLER", FALSE, 3, ""),
                    EffectAction("DISCARD", "OWN_HAND", FALSE, 1, "")>>)
      [] eid = "mystical_vortex" ->
           Effect("ON_PLAY", "",
                  <<EffectAction("DISCARD", "OWN_HAND", FALSE, 1, ""),
                    EffectAction("SACRIFICE", "ANY_CARD_IN_STABLE", FALSE, 1, "")>>)
      [] eid = "unicorn_poison" ->
           Effect("ON_PLAY", "", <<EffectAction("DESTROY", "ANY_UNICORN", FALSE, 1, "")>>)
      [] eid = "magical_flying_unicorn" ->
           Effect("ON_ENTER", "",
                  <<EffectAction("SEARCH_DECK", "CARD_IN_DECK", FALSE, 1, "magic_card")>>)
      \* tests/test_card_effects.py: the effect test_unicorn_swap_mechanic registers
      [] eid = "test_swap" ->
           Effect("ON_PLAY", "",
                  <<EffectAction("SELECT", "OWN_UNICORN", FALSE, 1, ""),
                    EffectAction("SELECT", "OTHER_UNICORN", FALSE, 1, ""),
                    EffectAction("SWAP", "NONE", FALSE, 1, "")>>)
      [] eid = "unicorn_swap" ->
           Effect("ON_PLAY", "", <<EffectAction("SWAP", "ANY_UNICORN", FALSE, 1, "")>>)
      [] OTHER -> NoEffect

(***************************************************************************)
(* game/game_state.py: PlayerState, GameState and EffectTask.              *)
(***************************************************************************)
PlayerState(h, st, up, dn) ==
    [hand |-> h, stable |-> st, upgrades |-> up, downgrades |-> dn,
     hand_visible |-> FALSE, cannot_play_upgrades |-> FALSE,
     cannot_play_instants |-> FALSE, cards_cannot_be_neighd |-> FALSE,
     unicorns_cannot_be_destroyed |-> FALSE, unicorns_are_basic |-> FALSE,
     unicorns_are_pandas |-> FALSE]

\* EffectTask(effect, controller_idx, source_card); the last_action_was_*
\* attributes are absent until _execute_action sets them (getattr default False)
EffectTask(eid, controller, source) ==
    [effect |-> eid, controller_idx |-> controller, source_card |-> source,
     current_action_idx |-> 0, targets_chosen |-> <<>>,
     last_action_was_discard |-> FALSE, last_action_was_sacrifice |-> FALSE,
     last_action_was_destroy |-> FALSE,
     \* observation: a step of this task pushed cascade tasks
     cascaded |-> FALSE]

\* GameState.__post_init__
unicorns_to_win(np) == IF np <= 2 THEN 7 ELSE IF np <= 5 THEN 7 ELSE 6

PlayerIdxs(s) == 0..(s.num_players - 1)

\* PlayerState.unicorn_count
RECURSIVE unicorn_count_of(_)
unicorn_count_of(stable) ==
    IF stable = <<>> THEN 0
    ELSE (IF effect_id(stable[1]) = "ginormous_unicorn" THEN 2 ELSE 1)
         + unicorn_count_of(Tail(stable))

unicorn_count(p) == unicorn_count_of(p.stable)

\* PlayerState.get_all_stable_cards
get_all_stable_cards(p) == p.stable \o p.upgrades \o p.downgrades

\* C2, alternative: a player wins only above the threshold
WinThresholdStrict(count, needed) == count > needed

\* "player.unicorn_count() >= self.unicorns_to_win"
WinThreshold(count, needed) == count >= needed

\* GameState.check_win_condition: the first player in index order, or None

check_win_condition(s) ==
    LET winners == {i \in PlayerIdxs(s) :
                       /\ ~s.players[i].unicorns_are_pandas
                       /\ WinThreshold(unicorn_count(s.players[i]),
                                       unicorns_to_win(s.num_players))}
    IN  IF winners = {} THEN NoPlayer
        ELSE CHOOSE i \in winners : \A j \in winners : i <= j

\* GameState.is_game_over
is_game_over(s) == s.winner # NoPlayer \/ s.phase = "GAME_OVER"

\* GameState.get_other_players, as the sequence of their indexes
get_other_players(s, idx) ==
    LET all == [i \in 1..s.num_players |-> i - 1]
    IN  SelectSeq(all, LAMBDA i : i # idx)

\* GameState.get_next_player_idx
get_next_player_idx(s) == (s.current_player_idx + 1) % s.num_players

\* random.shuffle: the permutation is the step's oracle s.rnd, a sequence
\* without repetition; cards the oracle does not order keep their order behind
\* those it orders.  s.shuffled records the cards of the step's first shuffle.
shuffle(s, pile) ==
    SelectSeq(s.rnd, LAMBDA c : In(c, pile)) \o SelectSeq(pile, LAMBDA c : ~In(c, s.rnd))

NoteShuffle(s, pile) ==
    IF s.shuffled = {} /\ Len(pile) > 1 THEN [s EXCEPT !.shuffled = Range(pile)] ELSE s

\* C21, alternative: the draw stops as soon as the draw pile is empty
DrawPileEmpty(s) == s.draw_pile = <<>>

\* "break  # No cards left anywhere"
NoCardsLeft(s) == s.draw_pile = <<>> /\ s.discard_pile = <<>>

\* GameState.draw_card
RECURSIVE draw_card(_, _, _)
draw_card(s, player_idx, count) ==
    IF count <= 0 THEN s
    ELSE IF NoCardsLeft(s) THEN s
    ELSE LET s1 == IF s.draw_pile = <<>>
                   THEN [NoteShuffle(s, s.discard_pile) EXCEPT
                            !.draw_pile = shuffle(s, s.discard_pile),
                            !.discard_pile = <<>>]
                   ELSE s
             card == Last(s1.draw_pile)
             s2 == [s1 EXCEPT !.draw_pile = Front(s1.draw_pile),
                              !.players[player_idx].hand = Append(@, card)]
         IN  draw_card(s2, player_idx, count - 1)

\* GameState.discard_card
discard_card(s, card, from_player_idx) ==
    IF In(card, s.players[from_player_idx].hand)
    THEN [s EXCEPT !.players[from_player_idx].hand = Remove(@, card),
                   !.discard_pile = Append(@, card)]
    ELSE s

\* GameState.add_to_stable
add_to_stable(s, card, player_idx) ==
    IF card_type(card) = "UPGRADE"
    THEN [s EXCEPT !.players[player_idx].upgrades = Append(@, card)]
    ELSE IF card_type(card) = "DOWNGRADE"
    THEN [s EXCEPT !.players[player_idx].downgrades = Append(@, card)]
    ELSE IF is_unicorn(card)
    THEN [s EXCEPT !.players[player_idx].stable = Append(@, card)]
    ELSE s

\* GameState.remove_from_stable: the card is appended to the discard pile
\* whether or not it was found in one of the player's three lists
remove_from_stable(s, card, player_idx) ==
    LET p == s.players[player_idx]
        s1 == IF In(card, p.stable)
              THEN [s EXCEPT !.players[player_idx].stable = Remove(@, card)]
              ELSE IF In(card, p.upgrades)
              THEN [s EXCEPT !.players[player_idx].upgrades = Remove(@, card)]
              ELSE IF In(card, p.downgrades)
              THEN [s EXCEPT !.players[player_idx].downgrades = Remove(@, card)]
              ELSE s
    IN  [s1 EXCEPT !.discard_pile = Append(@, card)]

\* GameState.find_card_owner: the first player holding the card in hand,
\* stable, upgrades or downgrades, or None
find_card_owner(s, card) ==
    LET owners == {i \in PlayerIdxs(s) :
                      \/ In(card, s.players[i].hand)
                      \/ In(card, s.players[i].stable)
                      \/ In(card, s.players[i].upgrades)
                      \/ In(card, s.players[i].downgrades)}
    IN  IF owners = {} THEN NoPlayer
        ELSE CHOOSE i \in owners : \A j \in owners : i <= j


(***************************************************************************)
(* game/effect_handler.py: EffectHandler.                                  *)
(*                                                                         *)
(* Besides the GameState fields the record carries, for the step being     *)
(* applied: raised ("" or the exception that ended the step), rnd and      *)
(* shuffled (see shuffle), and the observations lifo_broken, resumed,      *)
(* resolved_cards and pushed, which the properties read.                   *)
(***************************************************************************)
\* "state.resolution_stack.append(EffectTask(...))" for each task in order;
\* pushed logs the effect ids of the tasks pushed during the step
Push(s, tasks) ==
    [s EXCEPT !.resolution_stack = @ \o tasks,
              !.pushed = @ \o [k \in 1..Len(tasks) |-> tasks[k].effect]]

Raise(s, exc) == IF s.raised = "" THEN [s EXCEPT !.raised = exc] ELSE s

\* C31, alternative: every condition is true
Unconditional(s, task, condition) == TRUE

\* EffectHandler._check_condition: every unknown condition is true
_check_condition(s, task, condition) ==
    CASE condition = "if_sacrificed" -> task.last_action_was_sacrifice
      [] condition = "if_discarded" -> task.last_action_was_discard
      [] condition = "unicorn_card" -> TRUE
      [] condition = "if_downgrade_in_stable" ->
            Len(s.players[task.controller_idx].downgrades) > 0
      [] condition = "if_no_baby_unicorns" ->
            \A i \in DOMAIN s.players[task.controller_idx].stable :
                card_type(s.players[task.controller_idx].stable[i]) # "BABY_UNICORN"
      [] OTHER -> TRUE

\* "EffectTask(effect, idx, card)" for each of the cards, in order
TasksOf(cards, idx) ==
    [k \in 1..Len(cards) |-> EffectTask(effect_id(cards[k]), idx, cards[k])]

\* C36, alternative: no card listens for a card entering a stable
NoListener(listener_effect, stable_card, idx, card, controller_idx) == FALSE

\* lines 286-294: the stable card of player idx is pushed as a listener
ListensOnEnter(listener_effect, stable_card, idx, card, controller_idx) ==
    /\ listener_effect.exists
    /\ listener_effect.trigger = "ON_ENTER"
    /\ stable_card # card
    /\ effect_id(stable_card) = "barbed_wire"
    /\ is_unicorn(card)
    /\ idx = controller_idx

\* lines 284-294: the listeners' tasks, in push order
EnterListeners(s, card, controller_idx) ==
    FlattenSeq([j \in 1..s.num_players |->
        TasksOf(SelectSeq(get_all_stable_cards(s.players[j - 1]),
                          LAMBDA sc : ListensOnEnter(EFFECT_REGISTRY(effect_id(sc)),
                                                     sc, j - 1, card, controller_idx)),
                j - 1)])

\* lines 277-281: the task of the entering card's own ON_ENTER effect
OwnEnterTask(effect, s, card, controller_idx) ==
    IF /\ effect.exists
       /\ effect.trigger = "ON_ENTER"
       /\ ~(is_unicorn(card) /\ s.players[controller_idx].unicorns_are_basic)
    THEN <<EffectTask(effect_id(card), controller_idx, card)>>
    ELSE <<>>

\* EffectHandler.trigger_enter_events
trigger_enter_events(s, card, controller_idx) ==
    Push(s, OwnEnterTask(EFFECT_REGISTRY(effect_id(card)), s, card, controller_idx)
            \o EnterListeners(s, card, controller_idx))

\* lines 308-313: the stable card is pushed as a listener
ListensOnLeave(listener_effect, stable_card, card) ==
    /\ stable_card # card
    /\ listener_effect.exists
    /\ effect_id(stable_card) = "barbed_wire"
    /\ is_unicorn(card)

\* lines 306-313: the listeners' tasks, in push order
LeaveListeners(s, card, previous_owner_idx) ==
    TasksOf(SelectSeq(get_all_stable_cards(s.players[previous_owner_idx]),
                      LAMBDA sc : ListensOnLeave(EFFECT_REGISTRY(effect_id(sc)), sc, card)),
            previous_owner_idx)

\* lines 301-303: the task of the leaving card's own ON_LEAVE effect
OwnLeaveTask(effect, card, previous_owner_idx) ==
    IF effect.exists /\ effect.trigger = "ON_LEAVE"
    THEN <<EffectTask(effect_id(card), previous_owner_idx, card)>>
    ELSE <<>>

\* EffectHandler.trigger_leave_events
trigger_leave_events(s, card, previous_owner_idx) ==
    Push(s, OwnLeaveTask(EFFECT_REGISTRY(effect_id(card)), card, previous_owner_idx)
            \o LeaveListeners(s, card, previous_owner_idx))

\* C15, alternative: no card is immune to DESTROY
NeverProtected(s, owner, target) == FALSE

\* the DESTROY immunities
DestroyProtected(s, owner, target) ==
    \/ s.players[owner].unicorns_cannot_be_destroyed /\ is_unicorn(target)
    \/ effect_id(target) = "magical_kittencorn"

\* "if state.discard_pile and state.discard_pile[-1] == target: pop()"
PopIfLast(s, target) ==
    IF s.discard_pile # <<>> /\ Last(s.discard_pile) = target
    THEN [s EXCEPT !.discard_pile = Front(@)]
    ELSE s

RECURSIVE DiscardAll(_, _, _)
DiscardAll(s, cards, player_idx) ==
    IF cards = <<>> THEN s
    ELSE DiscardAll(discard_card(s, cards[1], player_idx), Tail(cards), player_idx)

\* "random.shuffle(state.draw_pile)"
ShuffleDrawPile(s) ==
    [NoteShuffle(s, s.draw_pile) EXCEPT !.draw_pile = shuffle(s, s.draw_pile)]

\* "if target in state.discard_pile: remove ... elif target in state.nursery:
\* remove"
TakeFromPiles(s, target) ==
    IF In(target, s.discard_pile)
    THEN [s EXCEPT !.discard_pile = Remove(@, target)]
    ELSE IF In(target, s.nursery)
    THEN [s EXCEPT !.nursery = Remove(@, target)]
    ELSE s

\* lines 182-189: the swap of two owned cards
SwapCards(s, card1, card2, owner1, owner2) ==
    IF /\ card1 # NoCard /\ card2 # NoCard
       /\ owner1 # NoPlayer /\ owner2 # NoPlayer
    THEN add_to_stable(
            add_to_stable(
                PopIfLast(remove_from_stable(
                              PopIfLast(remove_from_stable(s, card1, owner1), card1),
                              card2, owner2),
                          card2),
                card1, owner2),
            card2, owner1)
    ELSE s

\* lines 93-234: the branch of the action type; owner is
\* state.find_card_owner(target)
ExecuteBranch(s, pos, task, ctl, action_def, target, owner) ==
    CASE action_def.action_type = "DRAW" -> draw_card(s, ctl, action_def.value)
      [] action_def.action_type = "DISCARD" ->
           IF action_def.value = -1
           THEN [DiscardAll(s, s.players[ctl].hand, ctl) EXCEPT
                    !.resolution_stack[pos].last_action_was_discard = TRUE]
           ELSE IF target # NoCard
           THEN IF owner = NoPlayer THEN Raise(s, "TypeError")
                ELSE [discard_card(s, target, owner) EXCEPT
                         !.resolution_stack[pos].last_action_was_discard = TRUE]
           ELSE s
      [] action_def.action_type = "DESTROY" ->
           IF target # NoCard /\ owner # NoPlayer /\ ~DestroyProtected(s, owner, target)
           THEN trigger_leave_events(
                    [remove_from_stable(s, target, owner) EXCEPT
                        !.resolution_stack[pos].last_action_was_destroy = TRUE],
                    target, owner)
           ELSE s
      [] action_def.action_type = "SACRIFICE" ->
           IF target # NoCard
           THEN trigger_leave_events(
                    [remove_from_stable(s, target, ctl) EXCEPT
                        !.resolution_stack[pos].last_action_was_sacrifice = TRUE],
                    target, ctl)
           ELSE s
      [] action_def.action_type = "STEAL" ->
           IF target # NoCard /\ owner # NoPlayer
           THEN trigger_enter_events(
                    add_to_stable(PopIfLast(remove_from_stable(s, target, owner), target),
                                  target, ctl),
                    target, ctl)
           ELSE s
      [] action_def.action_type = "RETURN_TO_HAND" ->
           IF target # NoCard /\ owner # NoPlayer
           THEN trigger_leave_events(
                    [PopIfLast(remove_from_stable(s, target, owner), target) EXCEPT
                        !.players[owner].hand = Append(@, target)],
                    target, owner)
           ELSE s
      [] action_def.action_type = "BRING_TO_STABLE" ->
           IF target # NoCard
           THEN trigger_enter_events(add_to_stable(TakeFromPiles(s, target), target, ctl),
                                     target, ctl)
           ELSE s
      [] action_def.action_type = "SEARCH_DECK" ->
           IF target # NoCard /\ In(target, s.draw_pile)
           THEN ShuffleDrawPile([s EXCEPT !.draw_pile = Remove(@, target),
                                          !.players[ctl].hand = Append(@, target)])
           ELSE s
      [] action_def.action_type = "SWAP" ->
           IF Len(task.targets_chosen) >= 2
           THEN SwapCards(s,
                          task.targets_chosen[Len(task.targets_chosen) - 1],
                          task.targets_chosen[Len(task.targets_chosen)],
                          find_card_owner(s, task.targets_chosen[Len(task.targets_chosen) - 1]),
                          find_card_owner(s, task.targets_chosen[Len(task.targets_chosen)]))
           ELSE s
      [] action_def.action_type = "SHUFFLE_INTO_DECK" ->
           IF target # NoCard /\ owner # NoPlayer
           THEN ShuffleDrawPile(
                    [(IF In(target, s.players[owner].hand)
                      THEN [s EXCEPT !.players[owner].hand = Remove(@, target)]
                      ELSE PopIfLast(remove_from_stable(s, target, owner), target))
                     EXCEPT !.draw_pile = Append(@, target)])
           ELSE s
      [] action_def.action_type = "PULL_FROM_HAND" ->
           IF target # NoCard /\ owner # NoPlayer
           THEN IF ~In(target, s.players[owner].hand) THEN Raise(s, "ValueError")
                ELSE [[s EXCEPT !.players[owner].hand = Remove(@, target)] EXCEPT
                        !.players[ctl].hand = Append(@, target)]
           ELSE s
      [] action_def.action_type = "ADD_TO_HAND" ->
           IF target # NoCard
           THEN [TakeFromPiles(s, target) EXCEPT !.players[ctl].hand = Append(@, target)]
           ELSE s
      [] OTHER -> s

\* lines 87-91: a None target of a SELF action is the task's source card
ResolveTarget(task, action_def, given) ==
    IF given = NoCard /\ action_def.target_type = "SELF" THEN task.source_card ELSE given

\* the action executed on its resolved target
ExecuteOn(s, pos, task, action_def, target) ==
    ExecuteBranch(s, pos, task, task.controller_idx, action_def, target,
                  find_card_owner(s, target))

\* EffectHandler._execute_action for the task at position pos of the stack.
\* A target is a card or None: CHOOSE_TARGET stores action.target_card only.
_execute_action(s, pos, action_def, given) ==
    ExecuteOn(s, pos, s.resolution_stack[pos], action_def,
              ResolveTarget(s.resolution_stack[pos], action_def, given))

\* C5, alternative: process_stack works on the oldest task
BottomIndex(stack) == 1

\* "task = state.resolution_stack[-1]": the task process_stack works on
TopIndex(stack) == Len(stack)

\* lines 55-65: whether the current action waits for a CHOOSE_TARGET
needs_target(action_def) ==
    /\ action_def.target_type \notin {"NONE", "SELF", "CONTROLLER"}
    /\ action_def.value # -1

\* "state.resolution_stack.pop()"
PopTask(s) == [s EXCEPT !.resolution_stack = Front(@)]

\* C30, alternative: no placeholder is stored
NoPlaceholder(targets_chosen) == targets_chosen

\* "task.targets_chosen.append(None)": the placeholder that keeps the chosen
\* targets aligned with the actions
Placeholder(targets_chosen) == Append(targets_chosen, NoCard)

\* after _execute_action for the task at pos: the placeholder (when no target
\* was stored) and the cursor; cascaded notes that the step pushed tasks
AfterStep(s1, pos, placeholder, before) ==
    IF s1.raised # "" THEN s1
    ELSE [s1 EXCEPT
            !.resolution_stack[pos].targets_chosen =
                IF placeholder THEN Placeholder(@) ELSE @,
            !.resolution_stack[pos].current_action_idx = @ + 1,
            !.resolution_stack[pos].cascaded =
                @ \/ Len(s1.resolution_stack) > before]

\* the zones of a GameState: the four lists of every player and the piles
Zones(s) ==
    <<[i \in DOMAIN s.players |->
         <<s.players[i].hand, s.players[i].stable, s.players[i].upgrades,
           s.players[i].downgrades>>],
      s.draw_pile, s.discard_pile, s.nursery>>

\* observation: the cards a step took out of a player's stable, upgrades or
\* downgrades, with the owner and the number of other Barbed Wires the owner had
LeftStable(before, after) ==
    {[card |-> c, owner |-> i,
      wires |-> Cardinality({w \in Range(get_all_stable_cards(before.players[i])) :
                                w # c /\ effect_id(w) = "barbed_wire"})] :
        <<c, i>> \in {<<c, i>> \in AllCards \X DOMAIN before.players :
                        /\ In(c, get_all_stable_cards(before.players[i]))
                        /\ ~In(c, get_all_stable_cards(after.players[i]))}}

\* observation: the cards a step put into a player's stable, with the owner,
\* the owner's unicorns_are_basic flag and the Barbed Wires the owner has
EnteredStable(before, after) ==
    {[card |-> c, owner |-> i,
      basic |-> after.players[i].unicorns_are_basic,
      wires |-> SelectSeq(get_all_stable_cards(after.players[i]),
                          LAMBDA w : w # c /\ effect_id(w) = "barbed_wire")] :
        <<c, i>> \in {<<c, i>> \in AllCards \X DOMAIN before.players :
                        /\ In(c, after.players[i].stable)
                        /\ ~In(c, before.players[i].stable)}}

\* observation: steps logs every executed step of the call, with the state
\* s before it and the state s2 after it
LogStep(s2, s, pos, action_def, target) ==
    IF s2.raised # "" THEN s2
    ELSE [s2 EXCEPT !.steps = Append(@,
            [effect |-> s.resolution_stack[pos].effect,
             source |-> s.resolution_stack[pos].source_card,
             pos |-> pos,
             action_type |-> action_def.action_type,
             condition |-> action_def.condition,
             waits |-> needs_target(action_def),
             optional |-> action_def.optional,
             target |-> target,
             protected |->
                /\ target # NoCard
                /\ \/ effect_id(target) = "magical_kittencorn"
                   \/ \E i \in DOMAIN s.players :
                         /\ In(target, s.players[i].stable)
                         /\ is_unicorn(target)
                         /\ s.players[i].unicorns_cannot_be_destroyed,
             zones_same |-> Zones(s2) = Zones(s),
             tasks |-> SubSeq(s2.resolution_stack, Len(s.resolution_stack) + 1,
                              Len(s2.resolution_stack)),
             left |-> LeftStable(s, s2),
             entered |-> EnteredStable(s, s2),
             advanced |-> s2.resolution_stack[pos].current_action_idx
                          = s.resolution_stack[pos].current_action_idx + 1])]

\* one executed step of the task at pos
ExecuteStep(s, pos, action_def, target, placeholder) ==
    LogStep(AfterStep(_execute_action(s, pos, action_def, target), pos, placeholder,
                      Len(s.resolution_stack)),
            s, pos, action_def, target)

\* EffectHandler.process_stack: runs until the stack is empty or the task it
\* works on needs a target.  lifo_broken observes a task handled while another
\* task lies above it; resumed observes a task executing a further step after
\* a step of it pushed cascade tasks.
RECURSIVE process_stack(_)

\* lines 44-80: the current action of the task: skipped when its condition
\* fails, waiting when it needs a target none was stored for, else executed
RunAction(s, pos, task, idx, action_def) ==
    IF action_def.condition # "" /\ ~_check_condition(s, task, action_def.condition)
    THEN process_stack(
            [s EXCEPT !.resolution_stack[pos].targets_chosen =
                         IF Len(@) <= idx THEN Placeholder(@) ELSE @,
                      !.resolution_stack[pos].current_action_idx = @ + 1])
    ELSE IF Len(task.targets_chosen) <= idx /\ needs_target(action_def)
    THEN s
    ELSE process_stack(
            ExecuteStep([s EXCEPT !.resumed = @ \/ task.cascaded], pos, action_def,
                        IF Len(task.targets_chosen) <= idx
                        THEN NoCard ELSE task.targets_chosen[idx + 1],
                        Len(task.targets_chosen) <= idx))

\* lines 31-42: the task is popped when its effect's condition fails or its
\* actions are finished
RunTask(s, pos, task, effect, idx) ==
    IF /\ idx = 0 /\ effect.condition # ""
       /\ ~_check_condition(s, task, effect.condition)
    THEN process_stack(PopTask(s))
    ELSE IF idx >= Len(effect.actions)
    THEN process_stack(PopTask(s))
    ELSE RunAction(s, pos, task, idx, effect.actions[idx + 1])

\* one iteration of the loop, on the task at pos
Iterate(s, pos) ==
    RunTask([s EXCEPT !.lifo_broken = @ \/ pos # Len(s.resolution_stack)],
            pos, s.resolution_stack[pos],
            EFFECT_REGISTRY(s.resolution_stack[pos].effect),
            s.resolution_stack[pos].current_action_idx)

process_stack(s) ==
    IF s.raised # "" \/ s.resolution_stack = <<>> THEN s
    ELSE Iterate(s, TopIndex(s.resolution_stack))

(***************************************************************************)
(* game/action.py: legal actions.  An Action is a record; None is NoCard   *)
(* for card and target_card and NoPlayer for target_player_idx.            *)
(***************************************************************************)
Action(at, p, c, tc, tp) ==
    [action_type |-> at, player_idx |-> p, card |-> c,
     target_card |-> tc, target_player_idx |-> tp]

\* the list of all player indexes, in list order
AllIdxs(s) == [i \in 1..s.num_players |-> i - 1]

\* "any(c.card_type == CardType.INSTANT for c in p.hand)"
HasInstant(p) == \E k \in DOMAIN p.hand : card_type(p.hand[k]) = "INSTANT"

HasEffect(cards, eid) == \E k \in DOMAIN cards : effect_id(cards[k]) = eid

\* C35, alternative: every card may be played
AnyCardPlayable(s, player_idx, card) == TRUE

_can_play_card(s, player_idx, card) ==
    IF card_type(card) = "UPGRADE" /\ s.players[player_idx].cannot_play_upgrades
    THEN FALSE
    ELSE IF card_type(card) = "INSTANT" THEN FALSE
    ELSE IF card_type(card) = "DOWNGRADE"
    THEN Len(get_other_players(s, player_idx)) > 0
    ELSE IF card_type(card) = "BASIC_UNICORN"
    THEN ~ \E i \in PlayerIdxs(s) :
              i # player_idx /\ HasEffect(s.players[i].stable, "queen_bee_unicorn")
    ELSE TRUE

\* C19, alternative: the last eligible responder is asked
LastResponder(eligible) == eligible[Len(eligible)]

\* "break": only the first eligible responder gets actions
FirstResponder(eligible) == eligible[1]

\* the first player after the current one, in turn order, who has not passed,
\* is not the current player and is not barred from instants gets PASS_NEIGH
\* and one NEIGH per INSTANT in hand
_get_neigh_actions(s) ==
    LET order == [i \in 1..s.num_players |->
                     (s.current_player_idx + 1 + (i - 1)) % s.num_players]
        eligible == SelectSeq(order,
                        LAMBDA r : /\ r \notin s.players_passed_on_neigh
                                   /\ r # s.current_player_idx
                                   /\ ~s.players[r].cannot_play_instants)
    IN  IF eligible = <<>> THEN <<>>
        ELSE LET responder_idx == FirstResponder(eligible)
                 instants == SelectSeq(s.players[responder_idx].hand,
                                       LAMBDA c : card_type(c) = "INSTANT")
             IN  <<Action("PASS_NEIGH", responder_idx, NoCard, NoCard, NoPlayer)>>
                 \o [k \in 1..Len(instants) |->
                        Action("NEIGH", responder_idx, instants[k], NoCard, NoPlayer)]

\* the concatenation of zone(p) over the listed players
OfPlayers(s, idxs, zone(_)) ==
    FlattenSeq([k \in 1..Len(idxs) |-> zone(s.players[idxs[k]])])

StableOf(p) == p.stable
UpgradesOf(p) == p.upgrades
DowngradesOf(p) == p.downgrades
UpgradesAndDowngradesOf(p) == p.upgrades \o p.downgrades

\* _get_valid_targets: the card targets and the player targets, in order.
\* CARD_IN_HAND, OTHER_HAND, CARD_IN_DECK and the rest have no branch.
_get_valid_targets(s, target_type, controller_idx) ==
    LET player == s.players[controller_idx]
        others == get_other_players(s, controller_idx)
        all == AllIdxs(s)
        cards(cs) == [cards |-> cs, players |-> <<>>]
    IN
    CASE target_type = "OTHER_PLAYER" -> [cards |-> <<>>, players |-> others]
      [] target_type = "ANY_PLAYER" -> [cards |-> <<>>, players |-> all]
      [] target_type = "ANY_UNICORN" ->
           cards(OfPlayers(s, SelectSeq(all, LAMBDA i : ~s.players[i].unicorns_are_pandas),
                           StableOf))
      [] target_type = "OWN_UNICORN" -> cards(player.stable)
      [] target_type = "OTHER_UNICORN" -> cards(OfPlayers(s, others, StableOf))
      [] target_type = "ANY_UPGRADE" -> cards(OfPlayers(s, all, UpgradesOf))
      [] target_type = "OWN_UPGRADE" -> cards(player.upgrades)
      [] target_type = "OTHER_UPGRADE" -> cards(OfPlayers(s, others, UpgradesOf))
      [] target_type = "ANY_DOWNGRADE" -> cards(OfPlayers(s, all, DowngradesOf))
      [] target_type = "OWN_DOWNGRADE" -> cards(player.downgrades)
      [] target_type = "ANY_UPGRADE_OR_DOWNGRADE" ->
           cards(OfPlayers(s, all, UpgradesAndDowngradesOf))
      [] target_type = "OWN_CARD_IN_STABLE" -> cards(get_all_stable_cards(player))
      [] target_type = "OTHER_CARD_IN_STABLE" ->
           cards(OfPlayers(s, others, get_all_stable_cards))
      [] target_type = "ANY_CARD_IN_STABLE" ->
           cards(OfPlayers(s, all, get_all_stable_cards))
      [] target_type = "CARD_IN_DISCARD" -> cards(s.discard_pile)
      [] target_type = "BABY_UNICORN" -> cards(s.nursery)
      [] target_type = "OWN_HAND" -> cards(player.hand)
      [] OTHER -> cards(<<>>)

\* C38, alternative: no target choice is offered for the pending task
NoChoiceActions(s) == <<>>

\* the body of _get_effect_choice_actions(state, action); the parameter action
\* is not used by it
_get_effect_choice_actions(s) ==
    IF s.resolution_stack = <<>> THEN <<>>
    ELSE
    LET task == s.resolution_stack[Len(s.resolution_stack)]
        effect == EFFECT_REGISTRY(task.effect)
    IN
    IF task.current_action_idx >= Len(effect.actions) THEN <<>>
    ELSE
    LET action_def == effect.actions[task.current_action_idx + 1]
        controller_idx == task.controller_idx
        valid == _get_valid_targets(s, action_def.target_type, controller_idx)
        skip == <<Action("CHOOSE_TARGET", controller_idx, NoCard, NoCard, NoPlayer)>>
        actions ==
            (IF action_def.optional THEN skip ELSE <<>>)
            \o [k \in 1..Len(valid.cards) |->
                   Action("CHOOSE_TARGET", controller_idx, NoCard, valid.cards[k], NoPlayer)]
            \o [k \in 1..Len(valid.players) |->
                   Action("CHOOSE_TARGET", controller_idx, NoCard, NoCard, valid.players[k])]
    IN  IF actions = <<>> /\ ~action_def.optional THEN skip ELSE actions

\* the PLAY_CARD actions of one hand card
PlayActionsOf(s, player_idx, card) ==
    IF card_type(card) = "DOWNGRADE"
    THEN LET others == get_other_players(s, player_idx)
         IN  [k \in 1..Len(others) |->
                 Action("PLAY_CARD", player_idx, card, NoCard, others[k])]
    ELSE IF _can_play_card(s, player_idx, card)
    THEN <<Action("PLAY_CARD", player_idx, card, NoCard, NoPlayer)>>
    ELSE <<>>

\* the hand limit of the DISCARD_TO_LIMIT phase
HandLimit == 7

\* get_legal_actions: the list returned, or the exception raised.  With a
\* pending task and no chain it calls _get_effect_choice_actions(state), one
\* argument short of the function's two parameters: a TypeError.
get_legal_actions(s) ==
    LET player_idx == s.current_player_idx
        player == s.players[player_idx]
        returns(as) == [raised |-> "", actions |-> as]
    IN
    IF s.neigh_chain_active THEN returns(_get_neigh_actions(s))
    ELSE IF s.resolution_stack # <<>>
    THEN [raised |-> "TypeError", actions |-> <<>>]
    ELSE IF s.phase = "DRAW"
    THEN IF s.draw_pile # <<>> \/ s.discard_pile # <<>>
         THEN returns(<<Action("DRAW_CARD", player_idx, NoCard, NoCard, NoPlayer)>>)
         ELSE returns(<<Action("END_ACTION_PHASE", player_idx, NoCard, NoCard, NoPlayer)>>)
    ELSE IF s.phase = "ACTION"
    THEN returns(
            <<Action("END_ACTION_PHASE", player_idx, NoCard, NoCard, NoPlayer)>>
            \o (IF s.actions_remaining > 0
                THEN FlattenSeq([k \in 1..Len(player.hand) |->
                                    PlayActionsOf(s, player_idx, player.hand[k])])
                ELSE <<>>))
    ELSE IF s.phase = "DISCARD_TO_LIMIT"
    THEN IF Len(player.hand) > HandLimit
         THEN returns([k \in 1..Len(player.hand) |->
                          Action("DISCARD", player_idx, NoCard, player.hand[k], NoPlayer)])
         ELSE returns(<<>>)
    ELSE returns(<<>>)

(***************************************************************************)
(* game/action.py: apply_action and its helpers.                           *)
(***************************************************************************)
\* _update_player_flags: the seven flags recomputed from the player's cards
_update_player_flags(s, player_idx) ==
    LET player == s.players[player_idx]
    IN  [s EXCEPT !.players[player_idx] =
            [player EXCEPT
                !.hand_visible = \/ HasEffect(player.downgrades, "nanny_cam")
                                 \/ HasEffect(player.stable, "classy_narwhal"),
                !.cannot_play_upgrades = HasEffect(player.downgrades, "broken_stable"),
                !.cannot_play_instants = HasEffect(player.downgrades, "slowdown"),
                !.cards_cannot_be_neighd = HasEffect(player.upgrades, "yay"),
                !.unicorns_cannot_be_destroyed = HasEffect(player.upgrades, "rainbow_aura"),
                !.unicorns_are_basic = HasEffect(player.downgrades, "blinding_light"),
                !.unicorns_are_pandas = HasEffect(player.downgrades, "pandamonium")]]

\* _trigger_effect
_trigger_effect(s, card, controller_idx) ==
    IF EFFECT_REGISTRY(effect_id(card)).exists
    THEN process_stack(Push(s, <<EffectTask(effect_id(card), controller_idx, card)>>))
    ELSE s

\* _trigger_enter_events: the pushes of trigger_enter_events, then the drain
_trigger_enter_events(s, card, controller_idx) ==
    process_stack(trigger_enter_events(s, card, controller_idx))

\* _trigger_leave_events
_trigger_leave_events(s, card, previous_owner_idx) ==
    process_stack(trigger_leave_events(s, card, previous_owner_idx))

\* "state.discard_pile.append(card)" for each card, unless the call raised
AppendDiscard(s, cards) ==
    IF s.raised # "" THEN s ELSE [s EXCEPT !.discard_pile = @ \o cards]

\* _resolve_card; resolved_cards logs the cards it is called with.  The
\* DOWNGRADE branch reads the name "action", which is bound neither in the
\* function nor in the module: a NameError.
_resolve_card(s, card, player_idx) ==
    LET s0 == [s EXCEPT !.resolved_cards = Append(@, card)]
    IN
    CASE card_type(card) = "MAGIC" ->
           AppendDiscard(_trigger_effect(s0, card, player_idx), <<card>>)
      [] card_type(card) = "UPGRADE" ->
           _update_player_flags(add_to_stable(s0, card, player_idx), player_idx)
      [] card_type(card) = "DOWNGRADE" -> Raise(s, "NameError")
      [] is_unicorn(card) ->
           _trigger_enter_events(add_to_stable(s0, card, player_idx), card, player_idx)
      [] OTHER -> s0

\* "state.actions_remaining -= 1", unless the call raised
SpendAction(s) ==
    IF s.raised # "" THEN s ELSE [s EXCEPT !.actions_remaining = @ - 1]

\* C26, alternative: the card is played wherever it is
HeldOrNot(s, player_idx, card) == TRUE

\* "if card in player.hand"
InHand(s, player_idx, card) == In(card, s.players[player_idx].hand)

\* _apply_play_card
_apply_play_card(s, a) ==
    LET card == a.card
        player == s.players[a.player_idx]
        s1 == [s EXCEPT !.players[a.player_idx].hand = Remove(@, card)]
        any_can_neigh ==
            \E i \in PlayerIdxs(s) :
                /\ i # a.player_idx
                /\ ~s.players[i].cannot_play_instants
                /\ HasInstant(s.players[i])
    IN
    IF ~InHand(s, a.player_idx, card) THEN s
    ELSE IF ~player.cards_cannot_be_neighd /\ any_can_neigh
    THEN [s1 EXCEPT !.card_being_played = card,
                    !.neigh_chain_active = TRUE,
                    !.players_passed_on_neigh = {}]
    ELSE SpendAction(_resolve_card(s1, card, a.player_idx))

\* _apply_neigh: a Super Neigh ends the chain, discarding card_being_played
\* and itself; a Neigh becomes card_being_played and the card it counters is
\* appended to neigh_stack
_apply_neigh(s, a) ==
    LET neigh_card == a.card
        s1 == [s EXCEPT !.players[a.player_idx].hand = Remove(@, neigh_card)]
    IN
    IF effect_id(neigh_card) = "super_neigh"
    THEN [s1 EXCEPT
            !.discard_pile =
                (IF s1.card_being_played # NoCard
                 THEN Append(@, s1.card_being_played) ELSE @) \o <<neigh_card>>,
            !.card_being_played = NoCard,
            !.neigh_chain_active = FALSE,
            !.players_passed_on_neigh = {}]
    ELSE [s1 EXCEPT
            !.card_being_played = neigh_card,
            !.players_passed_on_neigh = {},
            !.neigh_stack = Append(@, s1.card_being_played)]

\* "len(state.neigh_stack) % 2 == 0": the original card resolves
ChainResolves(stack) == Len(stack) % 2 = 0

\* C40, alternative: the pass of the current player is awaited as well
AllPassedWithActor(s) ==
    ~ \E i \in PlayerIdxs(s) :
        /\ i \notin s.players_passed_on_neigh
        /\ ~s.players[i].cannot_play_instants
        /\ HasInstant(s.players[i])

\* lines 520-528: no player other than the current one who has not passed and
\* is not barred from instants holds an INSTANT
AllPassed(s) ==
    ~ \E i \in PlayerIdxs(s) :
        /\ i # s.current_player_idx
        /\ i \notin s.players_passed_on_neigh
        /\ ~s.players[i].cannot_play_instants
        /\ HasInstant(s.players[i])

\* lines 536-541: the first card of neigh_stack resolves or is discarded
ResolveOriginal(s) ==
    IF ChainResolves(s.neigh_stack)
    THEN _resolve_card(s, s.neigh_stack[1], s.current_player_idx)
    ELSE [s EXCEPT !.discard_pile = Append(@, s.neigh_stack[1])]

\* "state.neigh_stack = []", unless the call raised
ClearNeighStack(s) ==
    IF s.raised # "" THEN s ELSE [s EXCEPT !.neigh_stack = <<>>]

\* lines 532-552: the resolution of a chain all have passed on
ResolveChain(s) ==
    LET card == s.card_being_played
    IN  IF s.neigh_stack # <<>>
        THEN ClearNeighStack(
                AppendDiscard(ResolveOriginal(s),
                              Tail(s.neigh_stack)
                              \o (IF card # NoCard THEN <<card>> ELSE <<>>)))
        ELSE IF card # NoCard /\ card_type(card) # "INSTANT"
        THEN _resolve_card(s, card, s.current_player_idx)
        ELSE s

\* lines 554-561: the chain is closed and one action is spent
EndChain(s) ==
    IF s.raised # "" THEN s
    ELSE SpendAction([s EXCEPT !.card_being_played = NoCard,
                               !.neigh_chain_active = FALSE,
                               !.players_passed_on_neigh = {}])

\* after "state.players_passed_on_neigh.add(action.player_idx)"
AfterPass(s) == IF AllPassed(s) THEN EndChain(ResolveChain(s)) ELSE s

\* _apply_pass_neigh
_apply_pass_neigh(s, a) ==
    AfterPass([s EXCEPT !.players_passed_on_neigh = @ \cup {a.player_idx}])

\* the tasks of the player's stable cards whose effect has the trigger
TriggerTasks(s, player_idx, trigger) ==
    LET hits == SelectSeq(get_all_stable_cards(s.players[player_idx]),
                    LAMBDA c : /\ EFFECT_REGISTRY(effect_id(c)).exists
                               /\ EFFECT_REGISTRY(effect_id(c)).trigger = trigger)
    IN  [k \in 1..Len(hits) |-> EffectTask(effect_id(hits[k]), player_idx, hits[k])]

\* "state.phase = ...", unless the call raised
SetPhase(s, ph) == IF s.raised # "" THEN s ELSE [s EXCEPT !.phase = ph]

\* _process_beginning_of_turn
_process_beginning_of_turn(s) ==
    IF s.players[s.current_player_idx].unicorns_are_basic
    THEN [s EXCEPT !.phase = "DRAW"]
    ELSE SetPhase(process_stack(
                      Push(s, TriggerTasks(s, s.current_player_idx, "BEGINNING_OF_TURN"))),
                  "DRAW")

\* "if state.resolution_stack: EffectHandler.process_stack(state)"
DrainIfAny(s) == IF s.resolution_stack # <<>> THEN process_stack(s) ELSE s

\* lines 685-696: the turn passes if the stack is empty, else nothing
AdvanceIfDrained(s) ==
    IF s.raised # "" THEN s
    ELSE IF s.resolution_stack = <<>>
    THEN _process_beginning_of_turn(
            [s EXCEPT !.current_player_idx = get_next_player_idx(s),
                      !.turn_number = @ + 1,
                      !.phase = "BEGINNING",
                      !.actions_remaining = 1])
    ELSE s

\* _process_end_of_turn: the turn advances only if the stack is empty once
\* the end-of-turn tasks were pushed and drained
_process_end_of_turn(s) ==
    AdvanceIfDrained(
        DrainIfAny(Push(s, TriggerTasks(s, s.current_player_idx, "END_OF_TURN"))))

\* C10, alternative: the chosen target is not recorded on the task
DropTarget(targets_chosen, target_card) == targets_chosen

\* "task.targets_chosen.append(action.target_card)"
StoreTarget(targets_chosen, target_card) == Append(targets_chosen, target_card)

\* lines 427-431: the hand limit check of the DISCARD branch
AfterDiscard(s) ==
    IF /\ s.phase = "DISCARD_TO_LIMIT"
       /\ Len(s.players[s.current_player_idx].hand) <= HandLimit
    THEN _process_end_of_turn([s EXCEPT !.phase = "END"])
    ELSE s

\* the branch of apply_action for the action's type
ApplyBranch(s, a) ==
    CASE a.action_type = "DRAW_CARD" ->
           LET upgrades == s.players[s.current_player_idx].upgrades
               num_cards == IF HasEffect(upgrades, "double_dutch") THEN 2 ELSE 1
               s1 == draw_card(s, a.player_idx, num_cards)
           IN  [s1 EXCEPT
                  !.phase = "ACTION",
                  !.actions_remaining =
                      IF HasEffect(s1.players[s1.current_player_idx].upgrades,
                                   "caffeine_overload")
                      THEN 2 ELSE 1]
      [] a.action_type = "PLAY_CARD" -> _apply_play_card(s, a)
      [] a.action_type = "END_ACTION_PHASE" ->
           _process_end_of_turn([s EXCEPT !.phase = "END"])
      [] a.action_type = "NEIGH" -> _apply_neigh(s, a)
      [] a.action_type = "PASS_NEIGH" -> _apply_pass_neigh(s, a)
      [] a.action_type = "CHOOSE_TARGET" ->
           IF s.resolution_stack # <<>>
           THEN process_stack(
                   [s EXCEPT !.resolution_stack[Len(s.resolution_stack)].targets_chosen =
                                 StoreTarget(@, a.target_card)])
           ELSE s
      [] a.action_type = "DISCARD" ->
           AfterDiscard(IF a.target_card # NoCard
                        THEN discard_card(s, a.target_card, a.player_idx) ELSE s)
      [] a.action_type = "BRING_BABY" ->
           IF s.nursery # <<>>
           THEN add_to_stable([s EXCEPT !.nursery = Front(@)], Last(s.nursery), a.player_idx)
           ELSE s
      [] OTHER -> s

\* C37, alternative: the winner is whoever has the unicorns after the call
RecheckWin(t) ==
    [t EXCEPT !.winner = check_win_condition(t),
              !.phase = IF check_win_condition(t) # NoPlayer THEN "GAME_OVER" ELSE @]

\* lines 441-445: the win check
CheckWin(t) ==
    IF check_win_condition(t) # NoPlayer
    THEN [t EXCEPT !.winner = check_win_condition(t), !.phase = "GAME_OVER"]
    ELSE t

\* apply_action: the branch, then the win check (not reached when the branch
\* raised)
AfterBranch(t) == IF t.raised # "" THEN t ELSE CheckWin(t)

apply_action(s, a) == AfterBranch(ApplyBranch(s, a))

(***************************************************************************)
(* game/game_state.py: GameState.copy and determinize_for_player.          *)
(***************************************************************************)
\* GameState.copy: the fields it passes to the constructor; neigh_stack, the
\* attribute _apply_neigh adds, is not among them
copy(s) == [s EXCEPT !.neigh_stack = <<>>]

\* C23, alternative: only the observer's own hand is kept
KeepsOwnHand(s, i, player_idx) == i = player_idx

\* the hands determinize_for_player leaves alone: the observer's and those
\* of the players flagged hand_visible
KeepsHand(s, i, player_idx) == i = player_idx \/ s.players[i].hand_visible

\* the players whose hands are hidden from player_idx, in index order
HiddenPlayers(s, player_idx) ==
    SelectSeq(AllIdxs(s), LAMBDA i : ~KeepsHand(s, i, player_idx))

\* hidden_cards before the shuffle: the hidden hands, then the draw pile
HiddenCards(s, player_idx) ==
    OfPlayers(s, HiddenPlayers(s, player_idx), LAMBDA q : q.hand) \o s.draw_pile

\* GameState.determinize_for_player: the hidden cards are shuffled and dealt
\* back, to each hidden hand as many as it held, the rest to the draw pile
determinize_for_player(s, player_idx) ==
    LET state == copy(s)
        hidden == HiddenPlayers(s, player_idx)
        cards == shuffle(s, HiddenCards(s, player_idx))
        dealt_before(i) ==
            Len(OfPlayers(s, SelectSeq(hidden, LAMBDA j : j < i), LAMBDA q : q.hand))
        in_hands == Len(OfPlayers(s, hidden, LAMBDA q : q.hand))
    IN  [state EXCEPT
            !.players = [i \in DOMAIN @ |->
                IF In(i, hidden)
                THEN [@[i] EXCEPT !.hand = SubSeq(cards, dealt_before(i) + 1,
                                                  dealt_before(i) + Len(@))]
                ELSE @[i]],
            !.draw_pile = SubSeq(cards, in_hands + 1, Len(cards))]

(***************************************************************************)
(* game/game_engine.py: GameSimulator.simulate_random_game, the branch     *)
(* taken when get_legal_actions returns no action.                         *)
(***************************************************************************)
ForceAdvance(s) ==
    CASE s.phase = "ACTION" -> _process_end_of_turn([s EXCEPT !.phase = "END"])
      [] s.phase = "DRAW" -> [s EXCEPT !.phase = "ACTION"]
      [] s.phase = "BEGINNING" -> [s EXCEPT !.phase = "DRAW"]
      [] OTHER -> s

(***************************************************************************)
(* The state machine.  The variables are the fields of the GameState       *)
(* (neigh_stack is the attribute _apply_neigh adds), raised for an         *)
(* exception that escaped a call, instances for the CardInstance objects   *)
(* of the game, and the observations: chain (the interrupt chain under     *)
(* way), drain (the stack drain under way), obs (the last step) and        *)
(* answers (0 after a call of another type, else 1 and 2 in turn for the   *)
(* CHOOSE_TARGET, NEIGH and PASS_NEIGH calls in a row).                    *)
(***************************************************************************)
VARIABLES players, num_players, draw_pile, discard_pile, nursery,
          current_player_idx, phase, turn_number, actions_remaining, winner,
          resolution_stack, card_being_played, neigh_chain_active,
          players_passed_on_neigh, neigh_stack, raised, instances,
          chain, drain, obs, sim, answers

vars == <<players, num_players, draw_pile, discard_pile, nursery,
          current_player_idx, phase, turn_number, actions_remaining, winner,
          resolution_stack, card_being_played, neigh_chain_active,
          players_passed_on_neigh, neigh_stack, raised, instances,
          chain, drain, obs, sim, answers>>

\* the GameState of the current state, at the start of a step
State ==
    [players |-> players, num_players |-> num_players, draw_pile |-> draw_pile,
     discard_pile |-> discard_pile, nursery |-> nursery,
     current_player_idx |-> current_player_idx, phase |-> phase,
     turn_number |-> turn_number, actions_remaining |-> actions_remaining,
     winner |-> winner, resolution_stack |-> resolution_stack,
     card_being_played |-> card_being_played,
     neigh_chain_active |-> neigh_chain_active,
     players_passed_on_neigh |-> players_passed_on_neigh,
     neigh_stack |-> neigh_stack, raised |-> raised,
     rnd |-> <<>>, shuffled |-> {}, lifo_broken |-> FALSE, resumed |-> FALSE,
     resolved_cards |-> <<>>, pushed |-> <<>>, steps |-> <<>>]

NoChain ==
    [k |-> 0, original |-> NoCard, budget |-> 0, actor |-> NoPlayer, passed |-> {},
     target_player |-> NoPlayer]
NoDrain == [active |-> FALSE, n0 |-> 0, choices |-> 0, pushed |-> 0, effects |-> {}]
NoObs ==
    [action |-> "NONE", ended |-> FALSE, k |-> 0, original |-> NoCard,
     budget |-> 0, lifo_broken |-> FALSE, resumed |-> FALSE,
     resolved_cards |-> <<>>, pushed |-> <<>>,
     player |-> NoPlayer, card |-> NoCard, target |-> NoCard,
     actor |-> NoPlayer, passed |-> {}, steps |-> <<>>, piles |-> <<0, 0>>,
     target_player |-> NoPlayer]

\* no copy of the game is being simulated on
NoSim == [active |-> FALSE, n |-> 0, state |-> <<>>, shared |-> {}]

\* the remaining actions of the tasks of a stack
RECURSIVE Remaining(_)
Remaining(stack) ==
    IF stack = <<>> THEN 0
    ELSE Len(EFFECT_REGISTRY(stack[1].effect).actions) - stack[1].current_action_idx
         + Remaining(Tail(stack))

\* the actions of the effects in a log of pushed tasks
RECURSIVE ActionsOf(_)
ActionsOf(effects) ==
    IF effects = <<>> THEN 0
    ELSE Len(EFFECT_REGISTRY(effects[1]).actions) + ActionsOf(Tail(effects))

\* a player of a scenario: the flags are those of the cards in the stable
ScenarioPlayer(h, st, up, dn) ==
    LET s == [players |-> [i \in {0} |-> PlayerState(h, st, up, dn)]]
    IN  _update_player_flags(s, 0).players[0]

\* the games the exploration starts from: dealt is the state after
\* GameEngine._create_initial_state (five cards and a Baby Unicorn each, phase
\* BEGINNING); the others are games in progress at the start of a DRAW phase
Scenario(name) ==
    CASE name = "dealt" ->
           [ps |-> <<ScenarioPlayer(<<4, 5, 15, 17, 20>>, <<1>>, <<>>, <<>>),
                     ScenarioPlayer(<<6, 7, 8, 9, 21>>, <<2>>, <<>>, <<>>)>>,
            draw |-> <<14, 13, 12>>, discard |-> <<>>, nursery |-> <<3>>, current |-> 0,
            phase |-> "BEGINNING"]
      [] name = "counters" ->
           [ps |-> <<ScenarioPlayer(<<4, 5>>, <<1>>, <<>>, <<>>),
                     ScenarioPlayer(<<21, 23>>, <<2>>, <<>>, <<>>),
                     ScenarioPlayer(<<22>>, <<3>>, <<>>, <<28>>)>>,
            draw |-> <<8, 7, 6>>, discard |-> <<>>, nursery |-> <<>>, current |-> 0, phase |-> "DRAW"]
      [] name = "six_unicorns" ->
           [ps |-> <<ScenarioPlayer(<<9, 14>>, <<1, 4, 5, 6, 7, 8>>, <<>>, <<19>>),
                     ScenarioPlayer(<<>>, <<2, 10>>, <<>>, <<>>)>>,
            draw |-> <<13>>, discard |-> <<>>, nursery |-> <<3>>, current |-> 0, phase |-> "DRAW"]
      [] name = "cascade" ->
           [ps |-> <<ScenarioPlayer(<<12, 4>>, <<1, 11>>, <<>>, <<19>>),
                     ScenarioPlayer(<<>>, <<2>>, <<>>, <<>>)>>,
            draw |-> <<5, 6>>, discard |-> <<>>, nursery |-> <<3>>, current |-> 0, phase |-> "DRAW"]
      [] name = "resurrection" ->
           [ps |-> <<ScenarioPlayer(<<12, 4>>, <<1, 11>>, <<>>, <<>>),
                     ScenarioPlayer(<<>>, <<2>>, <<>>, <<>>)>>,
            draw |-> <<5, 6>>, discard |-> <<>>, nursery |-> <<3>>, current |-> 0, phase |-> "DRAW"]
      [] name = "full_hand" ->
           [ps |-> <<ScenarioPlayer(<<>>, <<1>>, <<>>, <<>>),
                     ScenarioPlayer(<<>>, <<2>>, <<>>, <<>>),
                     ScenarioPlayer(<<21, 22, 23, 4, 5, 6, 7>>, <<3>>, <<>>, <<>>)>>,
            draw |-> <<8, 9, 10>>, discard |-> <<>>, nursery |-> <<>>, current |-> 2, phase |-> "DRAW"]
      [] name = "optional" ->
           [ps |-> <<ScenarioPlayer(<<>>, <<1>>, <<27>>, <<>>),
                     ScenarioPlayer(<<>>, <<2, 24>>, <<>>, <<>>)>>,
            draw |-> <<4, 5>>, discard |-> <<>>, nursery |-> <<3>>, current |-> 0, phase |-> "DRAW"]
      [] name = "protected" ->
           [ps |-> <<ScenarioPlayer(<<15>>, <<1>>, <<>>, <<>>),
                     ScenarioPlayer(<<>>, <<2>>, <<25>>, <<>>),
                     ScenarioPlayer(<<>>, <<26>>, <<>>, <<>>)>>,
            draw |-> <<4, 5>>, discard |-> <<>>, nursery |-> <<3>>, current |-> 0, phase |-> "DRAW"]
      [] name = "flags" ->
           [ps |-> <<ScenarioPlayer(<<12>>, <<1>>, <<18>>, <<>>),
                     ScenarioPlayer(<<21>>, <<2>>, <<>>, <<>>)>>,
            draw |-> <<4, 5>>, discard |-> <<>>, nursery |-> <<3>>, current |-> 0, phase |-> "DRAW"]
      [] name = "reshuffle" ->
           [ps |-> <<ScenarioPlayer(<<>>, <<1>>, <<>>, <<>>),
                     ScenarioPlayer(<<>>, <<2>>, <<>>, <<>>)>>,
            draw |-> <<>>, discard |-> <<4, 5, 15>>, nursery |-> <<3>>, current |-> 0,
            phase |-> "DRAW"]
      [] name = "over_limit" ->
           [ps |-> <<ScenarioPlayer(<<4, 5, 6, 7, 8, 9, 10, 13, 14>>, <<1>>, <<>>, <<>>),
                     ScenarioPlayer(<<21>>, <<2>>, <<>>, <<>>)>>,
            draw |-> <<15, 16>>, discard |-> <<>>, nursery |-> <<3>>, current |-> 0,
            phase |-> "DISCARD_TO_LIMIT"]
      [] name = "over_limit_bomb" ->
           [ps |-> <<ScenarioPlayer(<<4, 5, 6, 7, 8, 9, 10, 13>>, <<1>>, <<17>>, <<>>),
                     ScenarioPlayer(<<>>, <<2>>, <<>>, <<>>)>>,
            draw |-> <<15, 16>>, discard |-> <<>>, nursery |-> <<3>>, current |-> 0,
            phase |-> "DISCARD_TO_LIMIT"]
      [] name = "pandas" ->
           [ps |-> <<ScenarioPlayer(<<14>>, <<1>>, <<>>, <<>>),
                     ScenarioPlayer(<<>>, <<2, 4>>, <<>>, <<29>>)>>,
            draw |-> <<5>>, discard |-> <<>>, nursery |-> <<3>>, current |-> 0, phase |-> "DRAW"]
      [] name = "search" ->
           [ps |-> <<ScenarioPlayer(<<31>>, <<1>>, <<>>, <<>>),
                     ScenarioPlayer(<<>>, <<2>>, <<>>, <<>>)>>,
            draw |-> <<5, 16>>, discard |-> <<>>, nursery |-> <<3>>, current |-> 0, phase |-> "DRAW"]
      [] name = "swap" ->
           [ps |-> <<ScenarioPlayer(<<5>>, <<1, 4>>, <<17>>, <<>>),
                     ScenarioPlayer(<<21>>, <<2, 7>>, <<>>, <<28>>)>>,
            draw |-> <<8, 9>>, discard |-> <<30>>, nursery |-> <<3>>, current |-> 0,
            phase |-> "ACTION", stack |-> <<EffectTask("test_swap", 0, 30)>>]
      [] name = "fizzle" ->
           [ps |-> <<ScenarioPlayer(<<15>>, <<1>>, <<>>, <<>>),
                     ScenarioPlayer(<<>>, <<2, 11>>, <<>>, <<>>)>>,
            draw |-> <<4, 5>>, discard |-> <<>>, nursery |-> <<3>>, current |-> 0, phase |-> "DRAW"]
      [] name = "kick" ->
           [ps |-> <<ScenarioPlayer(<<32>>, <<1>>, <<>>, <<>>),
                     ScenarioPlayer(<<6>>, <<2, 11>>, <<>>, <<>>)>>,
            draw |-> <<4, 5>>, discard |-> <<>>, nursery |-> <<3>>, current |-> 0, phase |-> "DRAW"]
      [] name = "blocked" ->
           [ps |-> <<ScenarioPlayer(<<4, 18, 21, 13>>, <<1>>, <<>>, <<34>>),
                     ScenarioPlayer(<<>>, <<2, 33>>, <<>>, <<>>)>>,
            draw |-> <<5, 6>>, discard |-> <<>>, nursery |-> <<3>>, current |-> 0, phase |-> "DRAW"]
      [] name = "wired" ->
           [ps |-> <<ScenarioPlayer(<<14>>, <<1>>, <<25>>, <<19>>),
                     ScenarioPlayer(<<>>, <<2, 13>>, <<>>, <<>>)>>,
            draw |-> <<5, 6>>, discard |-> <<>>, nursery |-> <<3>>, current |-> 0, phase |-> "DRAW"]
      [] name = "seventh" ->
           [ps |-> <<ScenarioPlayer(<<12>>, <<1, 4, 5, 6, 7, 8>>, <<>>, <<>>),
                     ScenarioPlayer(<<>>, <<2>>, <<>>, <<>>)>>,
            draw |-> <<9, 10>>, discard |-> <<>>, nursery |-> <<3>>, current |-> 0, phase |-> "DRAW"]
      [] name = "rebuttal" ->
           [ps |-> <<ScenarioPlayer(<<4, 22>>, <<1>>, <<>>, <<>>),
                     ScenarioPlayer(<<21>>, <<2>>, <<>>, <<>>)>>,
            draw |-> <<5, 6>>, discard |-> <<>>, nursery |-> <<3>>, current |-> 0, phase |-> "DRAW"]
      [] name = "steal" ->
           [ps |-> <<ScenarioPlayer(<<14, 19>>, <<1>>, <<>>, <<>>),
                     ScenarioPlayer(<<22>>, <<2, 11>>, <<>>, <<20>>)>>,
            draw |-> <<4, 5>>, discard |-> <<>>, nursery |-> <<3>>, current |-> 0, phase |-> "DRAW"]

Scenarios ==
    {"dealt", "counters", "six_unicorns", "cascade", "resurrection", "full_hand",
     "optional", "protected", "flags", "steal", "reshuffle", "pandas",
     "search", "fizzle", "kick", "blocked", "wired"}

\* the cards of a scenario
ScenarioCards(sc) ==
    Range(sc.draw) \cup Range(sc.discard) \cup Range(sc.nursery)
    \cup UNION {Range(sc.ps[i].hand) \cup Range(get_all_stable_cards(sc.ps[i]))
                : i \in DOMAIN sc.ps}

\* the games the callers of the API build in the DISCARD_TO_LIMIT phase (as
\* tests/test_game_flow.py expects it): no statement of the program assigns
\* this phase, so no game of Scenarios reaches it
OverLimitScenarios == {"over_limit", "over_limit_bomb"}

\* the games test_unicorn_swap_mechanic builds: the task of the swap effect is
\* put on the resolution stack by hand
SwapScenarios == {"swap"}

\* the resolution stack a scenario starts with
ScenarioStack(sc) == IF "stack" \in DOMAIN sc THEN sc.stack ELSE <<>>

InitFrom(names) ==
    \E name \in names :
        LET sc == Scenario(name)
        IN  /\ players = [i \in 0..(Len(sc.ps) - 1) |-> sc.ps[i + 1]]
            /\ num_players = Len(sc.ps)
            /\ draw_pile = sc.draw
            /\ discard_pile = sc.discard
            /\ nursery = sc.nursery
            /\ current_player_idx = sc.current
            /\ phase = sc.phase
            /\ turn_number = 1
            /\ actions_remaining = 1
            /\ winner = NoPlayer
            /\ resolution_stack = ScenarioStack(sc)
            /\ card_being_played = NoCard
            /\ neigh_chain_active = FALSE
            /\ players_passed_on_neigh = {}
            /\ neigh_stack = <<>>
            /\ raised = ""
            /\ instances = ScenarioCards(sc)
            /\ chain = NoChain
            /\ drain = NoDrain
            /\ obs = NoObs
            /\ sim = NoSim
            /\ answers = 0

Init == InitFrom(Scenarios)

\* the states a call can leave, given the state dry it leaves with an empty
\* oracle: one per outcome of its first random.shuffle
OutcomesOf(dry, f(_)) ==
    IF dry.shuffled = {} THEN {dry}
    ELSE {f([State EXCEPT !.rnd = perm]) : perm \in PermsOf(dry.shuffled)}

Outcomes(f(_)) == OutcomesOf(f(State), f)

\* the choices counted in one drain, at most
MaxChoices == 40

\* answers after one more answer of the caller
NextAnswer == IF answers = 1 THEN 2 ELSE 1

\* the next state is the GameState t a call left, with the observations of
\* the step
Commit(a, t) ==
    LET kind == a.action_type
        counters == chain.k + (IF kind = "NEIGH" THEN 1 ELSE 0)
        ended == neigh_chain_active /\ ~t.neigh_chain_active
        passed == IF kind = "NEIGH" THEN {}
                  ELSE IF kind = "PASS_NEIGH" THEN chain.passed \cup {a.player_idx}
                  ELSE chain.passed
    IN
    /\ players' = t.players
    /\ num_players' = t.num_players
    /\ draw_pile' = t.draw_pile
    /\ discard_pile' = t.discard_pile
    /\ nursery' = t.nursery
    /\ current_player_idx' = t.current_player_idx
    /\ phase' = t.phase
    /\ turn_number' = t.turn_number
    /\ actions_remaining' = t.actions_remaining
    /\ winner' = t.winner
    /\ resolution_stack' = t.resolution_stack
    /\ card_being_played' = t.card_being_played
    /\ neigh_chain_active' = t.neigh_chain_active
    /\ players_passed_on_neigh' = t.players_passed_on_neigh
    /\ neigh_stack' = t.neigh_stack
    /\ raised' = t.raised
    /\ instances' = instances
    /\ chain' = IF ~t.neigh_chain_active THEN NoChain
                ELSE IF ~neigh_chain_active
                THEN [k |-> 0, original |-> a.card, budget |-> actions_remaining,
                      actor |-> a.player_idx, passed |-> {},
                      target_player |-> a.target_player_idx]
                ELSE [chain EXCEPT !.k = counters, !.passed = passed]
    /\ drain' = IF resolution_stack = <<>>
                THEN IF t.resolution_stack = <<>> THEN NoDrain
                     ELSE [active |-> TRUE, n0 |-> Remaining(t.resolution_stack),
                           choices |-> 0, pushed |-> 0, effects |-> {}]
                ELSE [drain EXCEPT
                        !.choices = IF kind = "CHOOSE_TARGET" /\ @ < MaxChoices
                                    THEN @ + 1 ELSE @,
                        !.pushed = @ + ActionsOf(t.pushed),
                        !.effects = @ \cup Range(t.pushed)]
    /\ obs' = [action |-> kind, ended |-> ended,
               k |-> IF ended THEN counters ELSE 0,
               original |-> IF ended THEN chain.original ELSE NoCard,
               budget |-> IF ended THEN chain.budget ELSE 0,
               lifo_broken |-> t.lifo_broken, resumed |-> t.resumed,
               resolved_cards |-> t.resolved_cards, pushed |-> t.pushed,
               player |-> a.player_idx, card |-> a.card, target |-> a.target_card,
               actor |-> chain.actor, passed |-> passed, steps |-> t.steps,
               piles |-> <<Len(draw_pile), Len(discard_pile)>>,
               target_player |-> IF ended THEN chain.target_player
                                 ELSE a.target_player_idx]
    /\ sim' = sim
    /\ answers' = IF kind \in {"CHOOSE_TARGET", "NEIGH", "PASS_NEIGH"}
                  THEN NextAnswer ELSE 0

\* the number of calls of apply_action on one copy
MaxSim == 2

\* the loop condition of the callers (run_game, simulate_random_game), and the
\* bound of the exploration
Running == raised = "" /\ ~is_game_over(State) /\ turn_number <= MaxTurn

\* the actions of the given type that get_legal_actions returns
LegalOfType(kind) ==
    IF get_legal_actions(State).raised # "" THEN {}
    ELSE {a \in Range(get_legal_actions(State).actions) : a.action_type = kind}

\* a call of apply_action with the action returns or raises, leaving a state
Applied(a) ==
    \E t \in Outcomes(LAMBDA s : apply_action(s, a)) : Commit(a, t)

\* apply_action with a DRAW_CARD that get_legal_actions returned
DrawCard ==
    /\ Running
    /\ \E a \in LegalOfType("DRAW_CARD") : Applied(a)

PlayCard ==
    /\ Running
    /\ \E a \in LegalOfType("PLAY_CARD") : Applied(a)

EndActionPhase ==
    /\ Running
    /\ \E a \in LegalOfType("END_ACTION_PHASE") : Applied(a)

Neigh ==
    /\ Running
    /\ \E a \in LegalOfType("NEIGH") : Applied(a)

PassNeigh ==
    /\ Running
    /\ \E a \in LegalOfType("PASS_NEIGH") : Applied(a)

\* apply_action with a CHOOSE_TARGET action for the pending task.  The caller
\* builds it as _get_effect_choice_actions does (tests/test_advanced_effects.py
\* builds them by hand): get_legal_actions cannot return it.
ChooseTarget ==
    /\ Running
    /\ ~neigh_chain_active
    /\ resolution_stack # <<>>
    /\ \E a \in Range(_get_effect_choice_actions(State)) : Applied(a)

\* simulate_random_game when get_legal_actions returns no action
SimulatorForceAdvance ==
    /\ Running
    /\ get_legal_actions(State).raised = ""
    /\ get_legal_actions(State).actions = <<>>
    /\ \E t \in Outcomes(ForceAdvance) :
          Commit(Action("FORCE_ADVANCE", current_player_idx, NoCard, NoCard, NoPlayer), t)

Next ==
    \/ DrawCard
    \/ PlayCard
    \/ EndActionPhase
    \/ Neigh
    \/ PassNeigh
    \/ ChooseTarget
    \/ SimulatorForceAdvance

Spec == Init /\ [][Next]_vars

\* apply_action with a DISCARD that get_legal_actions returned
Discard ==
    /\ Running
    /\ \E a \in LegalOfType("DISCARD") : Applied(a)

\* the games of Spec and the games built in the DISCARD_TO_LIMIT phase
InitDiscard == InitFrom(Scenarios \cup OverLimitScenarios)

NextDiscard == Next \/ Discard

SpecDiscard == InitDiscard /\ [][NextDiscard]_vars

\* the stables, upgrades and downgrades of all players, concatenated
AllStables == OfPlayers(State, AllIdxs(State), get_all_stable_cards)

\* the cards of the hands of the given players
HandsOf(idxs) == UNION {Range(players[i].hand) : i \in idxs}

(***************************************************************************)
(* Callers that pass apply_action an action get_legal_actions did not      *)
(* return: apply_action is a public function and takes any Action.         *)
(***************************************************************************)
\* apply_action with a PLAY_CARD or an END_ACTION_PHASE of a player who is not
\* the current player; the card played is one of that player's hand
OutOfTurn ==
    /\ Running
    /\ \E p \in DOMAIN players \ {current_player_idx} :
          \/ Applied(Action("END_ACTION_PHASE", p, NoCard, NoCard, NoPlayer))
          \/ \E c \in Range(players[p].hand) :
                Applied(Action("PLAY_CARD", p, c, NoCard, NoPlayer))

\* the cards a caller may take for a card of the hand of player p: those of
\* the other hands, of the discard pile and of p's own stable, and the card
\* being played
NotHeldBy(p) ==
    (UNION {Range(players[i].hand) : i \in DOMAIN players}
     \cup Range(discard_pile) \cup Range(get_all_stable_cards(players[p]))
     \cup ({card_being_played} \ {NoCard}))
    \ Range(players[p].hand)

\* apply_action with a PLAY_CARD of a card that is not in the hand of the
\* acting player
NotInHand ==
    /\ Running
    /\ \E p \in DOMAIN players :
          \E c \in NotHeldBy(p) :
              Applied(Action("PLAY_CARD", p, c, NoCard, NoPlayer))

\* the games these callers play
AnyCallerScenarios == {"counters", "steal"}

InitAnyCaller == InitFrom(AnyCallerScenarios)

NextOutOfTurn == Next \/ OutOfTurn

SpecOutOfTurn == InitAnyCaller /\ [][NextOutOfTurn]_vars

NotInHandScenarios == {"dealt", "steal"}

InitNotInHand == InitFrom(NotInHandScenarios)

NextNotInHand == Next \/ NotInHand

SpecNotInHand == InitNotInHand /\ [][NextNotInHand]_vars

\* apply_action with a CHOOSE_TARGET the caller built itself, as the tests do:
\* None or any card of a hand or of a stable
ChooseByHand ==
    /\ Running
    /\ ~neigh_chain_active
    /\ resolution_stack # <<>>
    /\ \E c \in {NoCard} \cup HandsOf(DOMAIN players) \cup Range(AllStables) :
          Applied(Action("CHOOSE_TARGET",
                         resolution_stack[Len(resolution_stack)].controller_idx,
                         NoCard, c, NoPlayer))

InitSwap == InitFrom(SwapScenarios)

NextSwap == Next \/ ChooseByHand

SpecSwap == InitSwap /\ [][NextSwap]_vars

(***************************************************************************)
(* A simulation on a copy of the game (ai/mcts.py, ai/ismcts.py,           *)
(* ai/simulation.py, game/game_engine.py): state.copy(), then apply_action *)
(* on the copy while the game itself waits.                                *)
(***************************************************************************)
\* C24, alternative: the object itself is passed to the constructor
ByReference(field) == {field}

\* list(x), set(x) and [p.copy() for p in x], whose lists are list(x) again:
\* a new container of the same elements
NewContainer(field) == {}

\* deepcopy(self.resolution_stack): a new list of new EffectTasks
deepcopy(field) == {}

\* the mutable objects of the original that the result of copy() refers to
\* (card_being_played is passed as it is: a CardInstance, of which no
\* statement assigns an attribute)
SharedWithCopy ==
    NewContainer("players") \cup NewContainer("draw_pile")
    \cup NewContainer("discard_pile") \cup NewContainer("nursery")
    \cup deepcopy("resolution_stack") \cup NewContainer("players_passed_on_neigh")

\* the original after a call changed the copy to t: a shared object has
\* changed with it
SeenThrough(original, t, shared) ==
    [field \in DOMAIN original |->
        IF field \in shared THEN t[field] ELSE original[field]]

\* a GameState between two calls
Returned(t) ==
    [t EXCEPT !.rnd = <<>>, !.shuffled = {}, !.lifo_broken = FALSE,
              !.resumed = FALSE, !.resolved_cards = <<>>, !.pushed = <<>>,
              !.steps = <<>>]

\* the actions a simulation applies: those get_legal_actions returns and the
\* target choices of the pending task
SimActions(s) ==
    (IF get_legal_actions(s).raised # "" THEN {}
     ELSE Range(get_legal_actions(s).actions))
    \cup (IF ~s.neigh_chain_active /\ s.resolution_stack # <<>>
          THEN Range(_get_effect_choice_actions(s)) ELSE {})

\* the fields of the game are those of the GameState g
Becomes(g) ==
    /\ players' = g.players
    /\ num_players' = g.num_players
    /\ draw_pile' = g.draw_pile
    /\ discard_pile' = g.discard_pile
    /\ nursery' = g.nursery
    /\ current_player_idx' = g.current_player_idx
    /\ phase' = g.phase
    /\ turn_number' = g.turn_number
    /\ actions_remaining' = g.actions_remaining
    /\ winner' = g.winner
    /\ resolution_stack' = g.resolution_stack
    /\ card_being_played' = g.card_being_played
    /\ neigh_chain_active' = g.neigh_chain_active
    /\ players_passed_on_neigh' = g.players_passed_on_neigh
    /\ neigh_stack' = g.neigh_stack

\* sim_state = state.copy()
TakeCopy ==
    /\ Running
    /\ ~sim.active
    /\ sim' = [active |-> TRUE, n |-> 0, state |-> copy(State),
               shared |-> SharedWithCopy]
    /\ UNCHANGED <<players, num_players, draw_pile, discard_pile, nursery,
                   current_player_idx, phase, turn_number, actions_remaining,
                   winner, resolution_stack, card_being_played,
                   neigh_chain_active, players_passed_on_neigh, neigh_stack,
                   raised, instances, chain, drain, obs, answers>>

\* apply_action(sim_state, a)
SimApply ==
    /\ sim.active
    /\ sim.n < MaxSim
    /\ sim.state.raised = ""
    /\ ~is_game_over(sim.state)
    /\ \E a \in SimActions(sim.state) :
          LET dry == apply_action(sim.state, a)
              left == IF dry.shuffled = {} THEN {dry}
                      ELSE {apply_action([sim.state EXCEPT !.rnd = perm], a)
                            : perm \in PermsOf(dry.shuffled)}
          IN  \E t \in left :
                /\ sim' = [sim EXCEPT !.n = @ + 1, !.state = Returned(t)]
                /\ Becomes(SeenThrough(State, t, sim.shared))
    /\ UNCHANGED <<raised, instances, chain, drain, obs, answers>>

\* the games a simulation is run on
CopyScenarios == {"counters", "optional", "steal"}

InitCopy == InitFrom(CopyScenarios)

\* a move of the game while no simulation runs, or a step of the simulation
NextCopy == (~sim.active /\ Next) \/ TakeCopy \/ SimApply

SpecCopy == InitCopy /\ [][NextCopy]_vars

\* a caller that goes on after the game is over: get_legal_actions and
\* apply_action do not test is_game_over, and the caller applies what
\* get_legal_actions returns or, for a pending task, a target choice
PlayOn ==
    /\ raised = ""
    /\ is_game_over(State)
    /\ \E a \in SimActions(State) : Applied(a)

\* the games such a caller plays
PlayOnScenarios == {"dealt", "seventh"}

InitPlayOn == InitFrom(PlayOnScenarios)

NextPlayOn == Next \/ PlayOn

SpecPlayOn == InitPlayOn /\ [][NextPlayOn]_vars

\* a caller that answers the pending task as long as one is pending, also
\* after the game is over and past the last turn of the exploration
Drain ==
    /\ raised = ""
    /\ ~neigh_chain_active
    /\ resolution_stack # <<>>
    /\ \E a \in Range(_get_effect_choice_actions(State)) : Applied(a)

\* the games such a caller plays
DrainScenarios ==
    {"dealt", "cascade", "resurrection", "wired", "fizzle", "kick", "seventh", "steal"}

InitDrain == InitFrom(DrainScenarios)

NextDrain == Next \/ Drain

\* a task is pending for the caller to answer
TaskPending == raised = "" /\ ~neigh_chain_active /\ resolution_stack # <<>>

\* the caller has answered the pending task: a step of Drain
Answer == TaskPending /\ answers' = NextAnswer

\* the caller answers a pending task sooner or later
SpecDrain == InitDrain /\ [][NextDrain]_vars /\ WF_answers(Answer)

\* a response to the interrupt chain is awaited
ChainPending == raised = "" /\ neigh_chain_active

\* the responder has answered: a step of Neigh or of PassNeigh
Respond == ChainPending /\ answers' = NextAnswer

\* the games with interrupt chains
RespondScenarios == {"dealt", "counters", "rebuttal", "steal", "flags"}

InitRespond == InitFrom(RespondScenarios)

\* the responder answers sooner or later
SpecRespond == InitRespond /\ [][Next]_vars /\ WF_answers(Respond)

(***************************************************************************)
(* Properties.                                                             *)
(***************************************************************************)
\* every zone of the game, concatenated
AllZones ==
    OfPlayers(State, AllIdxs(State), LAMBDA p : p.hand \o get_all_stable_cards(p))
    \o draw_pile \o discard_pile \o nursery

\* C1: in every state a call left by returning, every CardInstance of the
\* game is in exactly one zone (a hand, a stable, upgrades, downgrades, the draw
\* pile, the discard pile or the nursery), also while an interrupt chain is
\* active or the resolution stack is suspended.
ZoneDisjoint ==
    raised = "" => \A c \in instances : Count(c, AllZones) = 1

\* the players whose unicorns score and who have reached the threshold
Winners ==
    {i \in PlayerIdxs(State) :
        /\ ~players[i].unicorns_are_pandas
        /\ unicorn_count(players[i]) >= unicorns_to_win(num_players)}

\* C2: in every state apply_action left by returning, if a player whose
\* unicorns score has unicorn_count >= unicorns_to_win then winner is such a
\* player and the phase is GAME_OVER, whatever is left on the resolution stack.
ImmediateWin ==
    (raised = "" /\ Winners # {}) => (winner \in Winners /\ phase = "GAME_OVER")

\* C2, witness: the player with six unicorns played a seventh, no other player
\* holding an INSTANT, and is the winner after that apply_action while the task
\* the card triggered is still on the stack.
WinMidCascade ==
    /\ obs.action = "PLAY_CARD"
    /\ raised = ""
    /\ winner = 0
    /\ phase = "GAME_OVER"
    /\ unicorn_count(players[0]) = 7
    /\ resolution_stack # <<>>
    /\ \A i \in PlayerIdxs(State) : ~HasInstant(players[i])

\* C3: when an interrupt chain ends after k counters (Neigh or Super Neigh),
\* the original card was resolved iff k is even; for odd k it is in the discard
\* pile, in no stable, and the step pushed no EffectTask.
InterruptParity ==
    (raised = "" /\ obs.ended) =>
        /\ (obs.k % 2 = 0) <=> In(obs.original, obs.resolved_cards)
        /\ (obs.k % 2 = 1) =>
              /\ In(obs.original, discard_pile)
              /\ ~In(obs.original, AllStables)
              /\ obs.pushed = <<>>

\* C4: when an interrupt chain ends, by passes or by a Super Neigh, the
\* actions_remaining of the turn is one less than when the card was played.
ChainCostsOneAction ==
    (raised = "" /\ obs.ended) => actions_remaining = obs.budget - 1

\* C5: process_stack never handles a task while another task lies above it
\* on the resolution stack: the tasks a step pushed are popped before the task
\* that pushed them takes another step.
StackIsLifo == ~obs.lifo_broken

\* C5, witness: during the last call a task whose earlier step had pushed
\* cascade tasks executed a further step, on top of the stack again.
CascadeThenLaterStep == raised = "" /\ obs.resumed /\ ~obs.lifo_broken

\* the action types get_legal_actions may return in a phase
PhaseActionTypes(ph) ==
    CASE ph = "DRAW" -> {"DRAW_CARD", "END_ACTION_PHASE"}
      [] ph = "ACTION" -> {"END_ACTION_PHASE", "PLAY_CARD"}
      [] ph = "DISCARD_TO_LIMIT" -> {"DISCARD"}
      [] OTHER -> {}

\* C6: get_legal_actions returns, and what it returns is governed by the
\* first of three contexts that applies: chain active, only NEIGH and
\* PASS_NEIGH; else stack non-empty, only CHOOSE_TARGET of the controller of the
\* top task; else only the actions of the phase, of the current player.
LegalActionContexts ==
    raised = "" =>
        LET legal == get_legal_actions(State)
            top == resolution_stack[Len(resolution_stack)]
        IN  /\ legal.raised = ""
            /\ \A a \in Range(legal.actions) :
                  IF neigh_chain_active
                  THEN a.action_type \in {"NEIGH", "PASS_NEIGH"}
                  ELSE IF resolution_stack # <<>>
                  THEN a.action_type = "CHOOSE_TARGET" /\ a.player_idx = top.controller_idx
                  ELSE /\ a.action_type \in PhaseActionTypes(phase)
                       /\ a.player_idx = current_player_idx

\* C7: a step that empties the resolution stack in the END phase (the last
\* target an end-of-turn effect asked for) passes the turn: the current player
\* becomes the next one and the turn counter increases by one.
TurnAdvancesAfterEndDrain ==
    [][(/\ phase = "END"
        /\ resolution_stack # <<>>
        /\ resolution_stack' = <<>>
        /\ raised' = ""
        /\ winner' = NoPlayer)
       => (/\ current_player_idx' = (current_player_idx + 1) % num_players
           /\ turn_number' = turn_number + 1)]_vars

\* C8: in a running game with no chain and an empty stack, when
\* get_legal_actions returns no action the simulator's forced step changes the
\* phase.
ControllerAdvances ==
    (/\ raised = ""
     /\ ~is_game_over(State)
     /\ ~neigh_chain_active
     /\ resolution_stack = <<>>
     /\ get_legal_actions(State).actions = <<>>)
    => ForceAdvance(State).phase # phase

\* C9: END_ACTION_PHASE applied in the ACTION phase leaves the phase
\* DISCARD_TO_LIMIT with the same current player when that player holds more
\* than seven cards, and does not when the player holds seven or fewer.
EndActionPhaseHandLimit ==
    [][(/\ obs'.action = "END_ACTION_PHASE"
        /\ phase = "ACTION"
        /\ raised' = "")
       => IF Len(players[current_player_idx].hand) > HandLimit
          THEN phase' = "DISCARD_TO_LIMIT" /\ current_player_idx' = current_player_idx
          ELSE phase' # "DISCARD_TO_LIMIT"]_vars

\* C10, as stated: the CHOOSE_TARGET applications of a drain never exceed
\* the remaining actions N the stack had when the drain began.
DrainWithinRemaining == drain.choices <= drain.n0

\* C10: the CHOOSE_TARGET applications of a drain never exceed N plus the
\* actions of the tasks pushed during the drain.
DrainWithinRemainingAndPushed == drain.choices <= drain.n0 + drain.pushed

\* C10, witness: a drain during which cascade tasks were pushed has emptied
\* the stack.
CascadeDrained ==
    /\ raised = ""
    /\ drain.active
    /\ resolution_stack = <<>>
    /\ drain.pushed > 0
    /\ drain.choices > 0

\* the resolution stack is suspended on a step, waiting for a target
Suspended == raised = "" /\ ~neigh_chain_active /\ resolution_stack # <<>>

\* the step the top task is suspended on
PendingStep ==
    EFFECT_REGISTRY(Last(resolution_stack).effect).actions[
        Last(resolution_stack).current_action_idx + 1]

\* the conditions of the steps that depend on the step before having happened
IfYouDo == {"if_sacrificed", "if_discarded", "if_destroyed"}

\* the last call was a CHOOSE_TARGET with a null target for an optional step
Declined ==
    /\ raised = ""
    /\ obs.action = "CHOOSE_TARGET"
    /\ obs.target = NoCard
    /\ obs.steps # <<>>

\* C11: whenever the stack is suspended on an optional step,
\* get_legal_actions returns a list with a null-target CHOOSE_TARGET; and after
\* such a decline no later step of the same task conditioned on the declined
\* step (if_sacrificed, if_discarded, if_destroyed) has executed.
OptionalStepDecline ==
    /\ (Suspended /\ PendingStep.optional) =>
          /\ get_legal_actions(State).raised = ""
          /\ \E a \in Range(get_legal_actions(State).actions) :
                /\ a.action_type = "CHOOSE_TARGET"
                /\ a.target_card = NoCard
                /\ a.target_player_idx = NoPlayer
    /\ (Declined /\ obs.steps[1].optional) =>
          \A k \in 2..Len(obs.steps) :
              ~(/\ obs.steps[k].source = obs.steps[1].source
                /\ obs.steps[k].pos = obs.steps[1].pos
                /\ obs.steps[k].condition \in IfYouDo)

\* the candidates of the step the top task is suspended on
PendingCandidates ==
    _get_valid_targets(State, PendingStep.target_type,
                       Last(resolution_stack).controller_idx)

\* suspended on a mandatory step that has no candidate at all
NoCandidates ==
    /\ Suspended
    /\ ~PendingStep.optional
    /\ PendingCandidates.cards = <<>>
    /\ PendingCandidates.players = <<>>

\* the one action that skips the pending step
SkipAction ==
    Action("CHOOSE_TARGET", Last(resolution_stack).controller_idx,
           NoCard, NoCard, NoPlayer)

\* C12: suspended on a mandatory step with an empty candidate set,
\* get_legal_actions returns exactly one action, the null-target
\* CHOOSE_TARGET; applying it changes no zone, advances the cursor of the task
\* by one and lets the drain go on.
MandatoryStepWithoutCandidates ==
    /\ [](NoCandidates =>
            /\ get_legal_actions(State).raised = ""
            /\ get_legal_actions(State).actions = <<SkipAction>>)
    /\ [][(NoCandidates /\ obs'.action = "CHOOSE_TARGET") =>
            /\ raised' = ""
            /\ obs'.steps # <<>>
            /\ obs'.steps[1].pos = Len(resolution_stack)
            /\ obs'.steps[1].target = NoCard
            /\ obs'.steps[1].zones_same
            /\ obs'.steps[1].advanced]_vars

\* the tasks trigger_leave_events owes for one removal, among the tasks pushed
\* by the step: the removed card's own ON_LEAVE task, and for a unicorn one
\* task per Barbed Wire of the previous owner
LeaveTasksOf(tasks, l) ==
    /\ EFFECT_REGISTRY(effect_id(l.card)).trigger = "ON_LEAVE" =>
          \E j \in DOMAIN tasks :
              /\ tasks[j].source_card = l.card
              /\ tasks[j].effect = effect_id(l.card)
              /\ tasks[j].controller_idx = l.owner
    /\ is_unicorn(l.card) =>
          Cardinality({j \in DOMAIN tasks :
                          /\ tasks[j].effect = "barbed_wire"
                          /\ tasks[j].controller_idx = l.owner}) = l.wires

\* C13: every step of an effect that removes a card from a player's stable,
\* whatever its kind, pushes the removed card's own ON_LEAVE task and, for a
\* unicorn, one task per Barbed Wire in the previous owner's stable.
EveryRemovalTriggersLeave ==
    \A k \in DOMAIN obs.steps :
        \A l \in obs.steps[k].left : LeaveTasksOf(obs.steps[k].tasks, l)

\* C14: in every reachable state the seven flags of each player equal what
\* _update_player_flags computes from the player's stable, upgrades and
\* downgrades, also after a flag-granting card has left.
FlagsMatchStable ==
    raised = "" =>
        \A i \in DOMAIN players : players[i] = _update_player_flags(State, i).players[i]

\* a logged DESTROY step whose target was immune when the step ran
ProtectedDestroy(step) == step.action_type = "DESTROY" /\ step.protected

\* C15: a DESTROY step whose chosen target is a unicorn of a player flagged
\* unicorns_cannot_be_destroyed, or is Magical Kittencorn, leaves every zone
\* unchanged, pushes no task and still advances the cursor of its task.
ProtectedDestroyIsNoOp ==
    \A k \in DOMAIN obs.steps :
        ProtectedDestroy(obs.steps[k]) =>
            /\ obs.steps[k].zones_same
            /\ obs.steps[k].tasks = <<>>
            /\ obs.steps[k].advanced

\* C15, witness: a unicorn under Rainbow Aura was chosen for a DESTROY step,
\* the call returned and the stack emptied
ProtectedDestroyDone ==
    /\ raised = ""
    /\ resolution_stack = <<>>
    /\ \E k \in DOMAIN obs.steps :
          /\ ProtectedDestroy(obs.steps[k])
          /\ obs.steps[k].target = obs.target
          /\ effect_id(obs.steps[k].target) # "magical_kittencorn"

\* a card played by p can be countered: p is not immune and some other
\* player who is not blocked holds an INSTANT
CanBeCountered(p) ==
    /\ ~players[p].cards_cannot_be_neighd
    /\ \E i \in DOMAIN players :
          /\ i # p
          /\ ~players[i].cannot_play_instants
          /\ \E c \in Range(players[i].hand) : card_type(c) = "INSTANT"

\* C16: a PLAY_CARD opens the chain (neigh_chain_active, card_being_played the
\* played card, nobody passed) exactly when the actor is not immune and some
\* other non-blocked player holds an INSTANT; otherwise the card resolves in
\* that apply and actions_remaining decreases by one.
PlayOpensChainOrResolves ==
    [][obs'.action = "PLAY_CARD" =>
          IF CanBeCountered(obs'.player)
          THEN /\ raised' = ""
               /\ neigh_chain_active'
               /\ card_being_played' = obs'.card
               /\ players_passed_on_neigh' = {}
               /\ actions_remaining' = actions_remaining
          ELSE /\ raised' = ""
               /\ ~neigh_chain_active'
               /\ In(obs'.card, obs'.resolved_cards)
               /\ actions_remaining' = actions_remaining - 1]_vars

\* the list get_legal_actions returns holds a NEIGH or a PASS_NEIGH
ChainActionsLegal ==
    \E a \in Range(get_legal_actions(State).actions) :
        a.action_type \in {"NEIGH", "PASS_NEIGH"}

\* C17: a Super Neigh ends the chain at once: the chain is inactive, no NEIGH
\* or PASS_NEIGH is legal, the contested card and the Super Neigh are in the
\* discard pile, and nothing of the chain survives (card_being_played, the
\* passed set, the stack of earlier counters).
SuperNeighEndsChain ==
    [][(obs'.action = "NEIGH" /\ effect_id(obs'.card) = "super_neigh") =>
          /\ raised' = ""
          /\ ~neigh_chain_active'
          /\ ~ChainActionsLegal'
          /\ In(card_being_played, discard_pile')
          /\ In(obs'.card, discard_pile')
          /\ card_being_played' = NoCard
          /\ players_passed_on_neigh' = {}
          /\ neigh_stack' = <<>>]_vars

\* the players who could still counter: not the actor of the chain, not
\* blocked, holding an INSTANT
CanRespond(i) ==
    /\ i # chain.actor
    /\ ~players[i].cannot_play_instants
    /\ \E c \in Range(players[i].hand) : card_type(c) = "INSTANT"

\* a PASS_NEIGH is applied while the chain is active
PassStep == neigh_chain_active /\ raised = "" /\ obs'.action = "PASS_NEIGH"

\* C18: the chain never ends by a pass while a player who could still counter
\* has not passed since the most recent counter; an ordinary counter resets
\* the passed set; and once all of them have passed the chain ends within that
\* same apply.
ChainEndsWhenAllPassed ==
    /\ [][(PassStep /\ ~neigh_chain_active') =>
             \A i \in DOMAIN players : CanRespond(i) => i \in obs'.passed]_vars
    /\ [][(obs'.action = "NEIGH" /\ effect_id(obs'.card) # "super_neigh") =>
             /\ neigh_chain_active'
             /\ players_passed_on_neigh' = {}]_vars
    /\ [][(PassStep /\ \A i \in DOMAIN players : CanRespond(i) => i \in obs'.passed) =>
             /\ raised' = ""
             /\ ~neigh_chain_active']_vars

\* the seat distances from the actor of the chain to the players who have not
\* passed and are not blocked
OpenSeats ==
    {d \in 1..(num_players - 1) :
        /\ (chain.actor + d) % num_players \notin players_passed_on_neigh
        /\ ~players[(chain.actor + d) % num_players].cannot_play_instants}

\* the first of them in seat order after the actor
NextResponder ==
    (chain.actor + CHOOSE d \in OpenSeats : \A e \in OpenSeats : d <= e) % num_players

\* the actions of type kind in a list
OfType(actions, kind) == SelectSeq(actions, LAMBDA a : a.action_type = kind)

\* C19: while the chain is active get_legal_actions returns the actions of
\* exactly one responder, the first in seat order after the acting player who
\* has not passed and is not blocked: one PASS_NEIGH and one NEIGH per INSTANT
\* in that player's hand, and nothing else.
OneResponderAtATime ==
    (neigh_chain_active /\ raised = "") =>
        LET legal == get_legal_actions(State)
            hand == players[NextResponder].hand
            instants == SelectSeq(hand, LAMBDA c : card_type(c) = "INSTANT")
        IN  /\ legal.raised = ""
            /\ OpenSeats # {}
            /\ \A k \in DOMAIN legal.actions :
                  /\ legal.actions[k].player_idx = NextResponder
                  /\ legal.actions[k].action_type \in {"PASS_NEIGH", "NEIGH"}
            /\ Len(OfType(legal.actions, "PASS_NEIGH")) = 1
            /\ Len(OfType(legal.actions, "NEIGH")) = Len(instants)
            /\ \A k \in DOMAIN instants :
                  \E j \in DOMAIN legal.actions :
                      /\ legal.actions[j].action_type = "NEIGH"
                      /\ legal.actions[j].card = instants[k]

\* C19, witness: the chain is active, the player next to the actor has passed
\* and the responder after them is offered a NEIGH
LaterResponderAsked ==
    /\ neigh_chain_active
    /\ raised = ""
    /\ OpenSeats # {}
    /\ (chain.actor + 1) % num_players \in players_passed_on_neigh
    /\ Len(OfType(get_legal_actions(State).actions, "NEIGH")) > 0

\* the legal action of the DRAW phase is applied
DrawStep ==
    /\ phase = "DRAW"
    /\ raised = ""
    /\ ~neigh_chain_active
    /\ resolution_stack = <<>>
    /\ obs'.action \in {"DRAW_CARD", "END_ACTION_PHASE"}

\* the actions of a turn of the current player: two with Caffeine Overload
TurnActions ==
    IF \E c \in Range(players[current_player_idx].upgrades) :
          effect_id(c) = "caffeine_overload"
    THEN 2 ELSE 1

\* C20: from the DRAW phase, applying the legal action always leads to the
\* ACTION phase of the same player with actions_remaining 1 (2 with Caffeine
\* Overload), also when both piles are empty.
DrawLeadsToAction ==
    [][DrawStep =>
          /\ raised' = ""
          /\ phase' = "ACTION"
          /\ current_player_idx' = current_player_idx
          /\ actions_remaining' = TurnActions]_vars

\* the largest count draw_card is asked for
MaxDraw == 3

\* every zone of a GameState, concatenated
CardsOf(s) ==
    OfPlayers(s, AllIdxs(s), LAMBDA p : p.hand \o get_all_stable_cards(p))
    \o s.draw_pile \o s.discard_pile \o s.nursery

\* two lists hold the same cards the same number of times
SameCards(a, b) == Len(a) = Len(b) /\ \A c \in Range(a) : Count(c, a) = Count(c, b)

\* the outcomes of random.shuffle that are tried: the order kept, the order
\* reversed and the order rotated by one place
Orders(pile) ==
    {pile, [j \in 1..Len(pile) |-> pile[Len(pile) + 1 - j]],
     [j \in 1..Len(pile) |-> pile[(j % Len(pile)) + 1]]}

\* the outcomes of the random.shuffle of draw_card(p, n): it shuffles only
\* when the draw pile runs out before n cards are drawn
Reshuffles(n) == IF n <= Len(draw_pile) THEN {<<>>} ELSE Orders(discard_pile)

\* the contract of draw_card(p, n) for the state t it leaves
DrawContract(t, p, n) ==
    LET available == Len(draw_pile) + Len(discard_pile)
        k == IF n <= available THEN n ELSE available
        hand == t.players[p].hand
        drawn == SubSeq(hand, Len(players[p].hand) + 1, Len(hand))
    IN  /\ t.raised = ""
        /\ Len(hand) = Len(players[p].hand) + k
        /\ SubSeq(hand, 1, Len(players[p].hand)) = players[p].hand
        /\ \A i \in DOMAIN players :
              /\ i # p => t.players[i].hand = players[i].hand
              /\ get_all_stable_cards(t.players[i]) = get_all_stable_cards(players[i])
        /\ t.nursery = nursery
        /\ IF k <= Len(draw_pile)
           THEN /\ t.discard_pile = discard_pile
                /\ t.draw_pile = SubSeq(draw_pile, 1, Len(draw_pile) - k)
                /\ \A j \in 1..k : drawn[j] = draw_pile[Len(draw_pile) + 1 - j]
           ELSE /\ t.discard_pile = <<>>
                /\ Range(t.draw_pile) \cup Range(drawn)
                       = Range(draw_pile) \cup Range(discard_pile)
        /\ SameCards(CardsOf(t), CardsOf(State))

\* C21: draw_card(p, n) moves exactly min(n, |draw pile| + |discard pile|)
\* cards into p's hand, turning the discard pile into the new draw pile when
\* the draw pile runs out; with both piles empty it moves nothing and returns;
\* the multiset of cards over all zones is unchanged.
DrawMovesWhatIsThere ==
    raised = "" =>
        \A p \in DOMAIN players, n \in 0..MaxDraw :
            \A perm \in Reshuffles(n) :
                DrawContract(draw_card([State EXCEPT !.rnd = perm], p, n), p, n)

\* C21, witness: a DRAW_CARD was applied with the draw pile empty, the
\* discard pile became the draw pile and the player drew from it
DrewFromDiscard ==
    /\ raised = ""
    /\ obs.action = "DRAW_CARD"
    /\ obs.piles[1] = 0
    /\ obs.piles[2] > 1
    /\ discard_pile = <<>>
    /\ Len(draw_pile) = obs.piles[2] - 1

\* the current player is over the hand limit in DISCARD_TO_LIMIT
OverLimit ==
    /\ raised = ""
    /\ phase = "DISCARD_TO_LIMIT"
    /\ Len(players[current_player_idx].hand) > HandLimit

DeterminizeFidelity ==
    raised = "" =>
        \A p \in DOMAIN players :
            \A perm \in Orders(HiddenCards(State, p)) :
                LET t == determinize_for_player([State EXCEPT !.rnd = perm], p)
                IN  /\ t.players[p].hand = players[p].hand
                    /\ \A i \in DOMAIN players :
                          /\ Len(t.players[i].hand) = Len(players[i].hand)
                          /\ players[i].hand_visible =>
                                t.players[i].hand = players[i].hand
                          /\ get_all_stable_cards(t.players[i])
                                = get_all_stable_cards(players[i])
                    /\ SameCards(CardsOf(t), CardsOf(State))
                    /\ Cardinality(Range(CardsOf(t))) = Len(CardsOf(t))

\* C23, witness: a state whose determinization for a player p deals another
\* hand to a hidden player while a third player's hand is visible
DeterminizedDiffers ==
    /\ raised = ""
    /\ \E p, i, j \in DOMAIN players :
          /\ p # i /\ p # j /\ i # j
          /\ players[i].hand_visible /\ players[i].hand # <<>>
          /\ \E perm \in Orders(HiddenCards(State, p)) :
                determinize_for_player([State EXCEPT !.rnd = perm], p).players[j].hand
                    # players[j].hand

\* the fields of the game that a GameState has
Original ==
    <<players, num_players, draw_pile, discard_pile, nursery, current_player_idx,
      phase, turn_number, actions_remaining, winner, resolution_stack,
      card_being_played, neigh_chain_active, players_passed_on_neigh,
      neigh_stack>>

\* C24: a call of apply_action on a copy leaves every field of the original
\* as it was: its zones, the tasks on its resolution stack with their cursors
\* and chosen targets, and the state of its interrupt chain.
CopyIsIndependent ==
    [][sim.active /\ sim'.n = sim.n + 1 => Original' = Original]_vars

\* C24, witness: the copy was taken with a suspended task and a target was
\* chosen on the copy, whose task has moved on while the original's has not
CopyMovedOn ==
    /\ sim.active /\ sim.n > 0
    /\ resolution_stack # <<>>
    /\ resolution_stack[Len(resolution_stack)].targets_chosen = <<>>
    /\ \/ sim.state.resolution_stack = <<>>
       \/ \E i \in DOMAIN sim.state.resolution_stack :
             sim.state.resolution_stack[i].targets_chosen # <<>>

\* C25: apply_action with a PLAY_CARD or an END_ACTION_PHASE whose acting
\* player is not the current player changes no zone, phase, budget, turn
\* counter or current player.
OutOfTurnIsNoOp ==
    [][obs'.action \in {"PLAY_CARD", "END_ACTION_PHASE"}
       /\ obs'.player # current_player_idx => Original' = Original]_vars

\* C26: apply_action with a PLAY_CARD whose card is not in the hand of the
\* acting player changes no zone, phase, budget, resolution stack or chain
\* field and raises nothing.
NotInHandIsNoOp ==
    [][obs'.action = "PLAY_CARD" /\ obs'.player \in DOMAIN players
       /\ ~In(obs'.card, players[obs'.player].hand)
       => Original' = Original /\ raised' = ""]_vars

\* C26, witness: a PLAY_CARD of a card of another player's hand has returned,
\* in the action phase of the acting player, who has an action left
PlayedWithoutTheCard ==
    /\ raised = ""
    /\ obs.action = "PLAY_CARD"
    /\ obs.player = current_player_idx
    /\ phase = "ACTION" /\ actions_remaining > 0
    /\ \E i \in DOMAIN players \ {obs.player} : In(obs.card, players[i].hand)

\* the players whose stables a category of unicorn targets names
NamedBy(target_type, controller_idx) ==
    CASE target_type = "OWN_UNICORN" -> {controller_idx}
      [] target_type = "OTHER_UNICORN" -> DOMAIN players \ {controller_idx}
      [] target_type = "ANY_UNICORN" -> DOMAIN players

\* C27: for ANY_UNICORN, OWN_UNICORN and OTHER_UNICORN the candidates hold no
\* unicorn of the stable of a player flagged unicorns_are_pandas, and are
\* otherwise exactly the unicorns of the stables the category names.
PandasAreNoTargets ==
    raised = "" =>
        \A controller_idx \in DOMAIN players :
            \A target_type \in {"ANY_UNICORN", "OWN_UNICORN", "OTHER_UNICORN"} :
                Range(_get_valid_targets(State, target_type, controller_idx).cards)
                    = UNION {Range(players[i].stable) :
                             i \in {j \in NamedBy(target_type, controller_idx) :
                                    ~players[j].unicorns_are_pandas}}

\* the cards a category of zone targets names for a controller
ZoneNamedBy(target_type, controller_idx) ==
    CASE target_type = "OWN_HAND" -> HandsOf({controller_idx})
      [] target_type = "OTHER_HAND" -> HandsOf(DOMAIN players \ {controller_idx})
      [] target_type = "CARD_IN_HAND" -> HandsOf(DOMAIN players)
      [] target_type = "CARD_IN_DISCARD" -> Range(discard_pile)
      [] target_type = "CARD_IN_DECK" -> Range(draw_pile)
      [] target_type = "BABY_UNICORN" -> Range(nursery)

\* C28: for OWN_HAND, OTHER_HAND, CARD_IN_HAND, CARD_IN_DISCARD, CARD_IN_DECK
\* and BABY_UNICORN the candidates are exactly the controller's hand, the
\* other players' hands, the players' hands, the discard pile, the draw pile
\* and the nursery, so that a search of a non-empty draw pile offers its cards.
ZoneTargetsAreTheZone ==
    raised = "" =>
        \A controller_idx \in DOMAIN players :
            \A target_type \in {"OWN_HAND", "OTHER_HAND", "CARD_IN_HAND",
                                 "CARD_IN_DISCARD", "CARD_IN_DECK", "BABY_UNICORN"} :
                Range(_get_valid_targets(State, target_type, controller_idx).cards)
                    = ZoneNamedBy(target_type, controller_idx)

\* the second selection of a swap built as two selections and a commit is
\* pending
SecondSelection ==
    /\ raised = ""
    /\ resolution_stack # <<>>
    /\ LET task == resolution_stack[Len(resolution_stack)]
       IN  /\ task.effect = "test_swap"
           /\ task.current_action_idx = 1
           /\ Len(task.targets_chosen) = 1

\* the players in whose stable, upgrades or downgrades the card is
StableOwners(c) == {i \in DOMAIN players : In(c, get_all_stable_cards(players[i]))}

\* the zones of the game
TheZones == <<players, draw_pile, discard_pile, nursery>>

SameTask(i) ==
    /\ i \in DOMAIN resolution_stack /\ i \in DOMAIN resolution_stack'
    /\ resolution_stack'[i].effect = resolution_stack[i].effect
    /\ resolution_stack'[i].source_card = resolution_stack[i].source_card
    /\ resolution_stack'[i].controller_idx = resolution_stack[i].controller_idx

\* C30: every EffectTask on the resolution stack has at most as many chosen
\* targets as its effect has actions, and its current_action_idx never
\* decreases; when the drain is suspended on the top task, the number of its
\* chosen targets is its current_action_idx.
TaskCursorsAligned ==
    /\ [](raised = "" =>
            /\ \A i \in DOMAIN resolution_stack :
                  Len(resolution_stack[i].targets_chosen)
                      <= Len(EFFECT_REGISTRY(resolution_stack[i].effect).actions)
            /\ Suspended =>
                  Len(Last(resolution_stack).targets_chosen)
                      = Last(resolution_stack).current_action_idx)
    /\ [][\A i \in DOMAIN resolution_stack :
            SameTask(i) /\ raised' = "" =>
                resolution_stack'[i].current_action_idx
                    >= resolution_stack[i].current_action_idx]_vars

\* C30, witness: the drain is suspended on a later step of a task, after a
\* target was chosen for an earlier step
SuspendedOnLaterStep ==
    /\ Suspended
    /\ obs.action = "CHOOSE_TARGET"
    /\ Last(resolution_stack).current_action_idx >= 1
    /\ Len(Last(resolution_stack).targets_chosen) >= 1

\* the top task is the reaction of a Unicorn Phoenix that has left the stable,
\* waiting for the card its owner discards
PhoenixPending ==
    /\ Suspended
    /\ Last(resolution_stack).effect = "unicorn_phoenix"
    /\ Last(resolution_stack).current_action_idx = 0

\* the controller and the source card of the top task
TopController == Last(resolution_stack).controller_idx
TopSource == Last(resolution_stack).source_card

\* C31: when the reaction of a Unicorn Phoenix is pending and its owner's hand
\* is empty, the owner's only choice is the null CHOOSE_TARGET, and applying it
\* leaves Phoenix in the discard pile and in no stable, pops the reaction and
\* lets the tasks below it go on: the stack is shorter and holds no reaction
\* of that Phoenix.
PhoenixFizzles ==
    /\ [](PhoenixPending /\ players[TopController].hand = <<>> =>
            /\ In(TopSource, discard_pile)
            /\ _get_effect_choice_actions(State)
                 = <<Action("CHOOSE_TARGET", TopController, NoCard, NoCard, NoPlayer)>>)
    /\ [][(/\ PhoenixPending
           /\ players[TopController].hand = <<>>
           /\ obs'.action = "CHOOSE_TARGET")
          => /\ raised' = ""
             /\ In(TopSource, discard_pile')
             /\ ~In(TopSource, AllStables')
             /\ Len(resolution_stack') < Len(resolution_stack)
             /\ \A i \in DOMAIN resolution_stack' :
                   resolution_stack'[i].source_card # TopSource]_vars

\* C31, witness: the last step was the null choice of a Phoenix reaction; the
\* Phoenix was destroyed, its former owner's hand is empty and the stack is
\* empty
PhoenixFizzled ==
    /\ raised = ""
    /\ obs.action = "CHOOSE_TARGET" /\ obs.target = NoCard
    /\ \E k \in DOMAIN obs.steps :
          /\ obs.steps[k].effect = "unicorn_phoenix"
          /\ obs.steps[k].action_type = "DISCARD"
          /\ players[obs.player].hand = <<>>
          /\ In(obs.steps[k].source, discard_pile)
    /\ resolution_stack = <<>>

\* C33: when the reaction of a Unicorn Phoenix that has left its owner's
\* stable is pending and the owner chooses a card to discard, Phoenix is
\* afterwards in that owner's stable and in no other zone, and the discarded
\* card is in the discard pile.
PhoenixReturns ==
    [][(/\ PhoenixPending
        /\ obs'.action = "CHOOSE_TARGET"
        /\ obs'.target # NoCard
        /\ raised' = "")
       => /\ In(TopSource, players'[TopController].stable)
          /\ Count(TopSource, AllZones') = 1
          /\ In(obs'.target, discard_pile')]_vars

\* what two games are compared on: the zones, the phase, the budget, the
\* winner, and the exception if the call raised
Outcome(t) ==
    <<t.raised, Zones(t), t.phase, t.actions_remaining, t.winner>>

\* the game s and its copy c agree on get_legal_actions and on the target
\* choices, and every action leaves them with the same outcome, for action
\* sequences of up to n actions
RECURSIVE AgreeFor(_, _, _)
AgreeFor(s, c, n) ==
    /\ get_legal_actions(c) = get_legal_actions(s)
    /\ SimActions(c) = SimActions(s)
    /\ n > 0 /\ s.raised = "" /\ ~is_game_over(s) =>
          \A a \in SimActions(s) :
              /\ Outcome(apply_action(c, a)) = Outcome(apply_action(s, a))
              /\ AgreeFor(Returned(apply_action(s, a)), Returned(apply_action(c, a)), n - 1)

\* C32: in every reachable state, also in the middle of an interrupt chain
\* after counters were played, get_legal_actions agrees on the game and its
\* copy, and the same sequence of actions applied to both leaves the same
\* zones, phase, budget and winner.
CopyBehavesAlike ==
    raised = "" => AgreeFor(State, copy(State), MaxSim)

\* the PLAY_CARD actions get_legal_actions returns for the card
PlaysOf(c) ==
    SelectSeq(get_legal_actions(State).actions,
              LAMBDA a : a.action_type = "PLAY_CARD" /\ a.card = c)

\* the step resolves a Downgrade: played from the hand with no chain opened,
\* or as the original card of a chain that all have passed on after an even
\* number of counters
DowngradeResolves ==
    \/ /\ obs'.action = "PLAY_CARD"
       /\ card_type(obs'.card) = "DOWNGRADE"
       /\ In(obs'.card, players[obs'.player].hand)
       /\ ~neigh_chain_active'
    \/ /\ obs'.action = "PASS_NEIGH"
       /\ neigh_chain_active /\ AllPassed(
              [State EXCEPT !.players_passed_on_neigh = @ \cup {obs'.player}])
       /\ chain.k % 2 = 0
       /\ card_type(chain.original) = "DOWNGRADE"

\* C34: a Downgrade in the current player's hand yields one PLAY_CARD per
\* other player and none for the actor; when the play resolves, at once or
\* after a chain with an even number of counters, the card is in the
\* downgrades of the chosen player and in no other zone, and that player's
\* flags are those of the cards in their stable.
DowngradeGoesToTarget ==
    /\ [](/\ raised = "" /\ phase = "ACTION" /\ ~neigh_chain_active
           /\ resolution_stack = <<>> /\ actions_remaining > 0
           => \A c \in Range(players[current_player_idx].hand) :
                 card_type(c) = "DOWNGRADE" =>
                    /\ Len(PlaysOf(c)) = num_players - 1
                    /\ {PlaysOf(c)[k].target_player_idx : k \in DOMAIN PlaysOf(c)}
                         = DOMAIN players \ {current_player_idx})
    /\ [][DowngradeResolves =>
            LET card == IF obs'.action = "PLAY_CARD" THEN obs'.card ELSE chain.original
                target_idx == IF obs'.action = "PLAY_CARD" THEN obs'.target_player
                              ELSE chain.target_player
            IN  /\ raised' = ""
                /\ In(card, players'[target_idx].downgrades)
                /\ Count(card, AllZones') = 1
                /\ players'[target_idx]
                     = _update_player_flags(State', target_idx).players[target_idx]]_vars

\* another player than the current one has Queen Bee Unicorn in their stable
QueenBeeElsewhere ==
    \E i \in DOMAIN players \ {current_player_idx} :
        HasEffect(players[i].stable, "queen_bee_unicorn")

\* the action phase with no chain and an empty stack
ActionPhase ==
    /\ raised = "" /\ phase = "ACTION"
    /\ ~neigh_chain_active /\ resolution_stack = <<>>

\* C35: in the ACTION phase with no chain and an empty stack,
\* get_legal_actions returns END_ACTION_PHASE; it returns PLAY_CARD actions
\* only when actions_remaining > 0 and only for cards of the current player's
\* hand, none for an INSTANT, none for an UPGRADE while the player is flagged
\* cannot_play_upgrades and none for a Basic Unicorn while another player has
\* Queen Bee Unicorn in their stable.
ActionPhaseOffers ==
    ActionPhase =>
        /\ get_legal_actions(State).raised = ""
        /\ Action("END_ACTION_PHASE", current_player_idx, NoCard, NoCard, NoPlayer)
             \in Range(get_legal_actions(State).actions)
        /\ \A a \in LegalOfType("PLAY_CARD") :
              /\ actions_remaining > 0
              /\ a.player_idx = current_player_idx
              /\ In(a.card, players[current_player_idx].hand)
              /\ card_type(a.card) # "INSTANT"
              /\ ~(/\ card_type(a.card) = "UPGRADE"
                   /\ players[current_player_idx].cannot_play_upgrades)
              /\ ~(card_type(a.card) = "BASIC_UNICORN" /\ QueenBeeElsewhere)

\* C35, witness: the current player has an action left and holds an INSTANT,
\* an UPGRADE while flagged cannot_play_upgrades, a Basic Unicorn while
\* another player has Queen Bee Unicorn, and a card that is offered
BlockedAndOffered ==
    /\ ActionPhase /\ actions_remaining > 0
    /\ players[current_player_idx].cannot_play_upgrades
    /\ QueenBeeElsewhere
    /\ \A type \in {"INSTANT", "UPGRADE", "BASIC_UNICORN"} :
          \E c \in Range(players[current_player_idx].hand) : card_type(c) = type
    /\ LegalOfType("PLAY_CARD") # {}

\* what identifies a task: its effect, its controller and its source card
TaskIds(tasks) ==
    [k \in DOMAIN tasks |->
        <<tasks[k].effect, tasks[k].controller_idx, tasks[k].source_card>>]

\* the tasks due when the unicorn enters the stable of owner, who has the
\* Barbed Wires wires: the card's own ON_ENTER effect unless the owner is
\* flagged unicorns_are_basic, then one task per Barbed Wire
EnterTasks(card, owner, basic, wires) ==
    (IF /\ EFFECT_REGISTRY(effect_id(card)).exists
        /\ EFFECT_REGISTRY(effect_id(card)).trigger = "ON_ENTER"
        /\ ~basic
     THEN <<<<effect_id(card), owner, card>>>> ELSE <<>>)
    \o [k \in DOMAIN wires |-> <<"barbed_wire", owner, wires[k]>>]

\* the top task is the task of a Barbed Wire of the player, awaiting that
\* player's choice of a target, and no action other than a target choice is
\* legal
WireAwaitsChoice(owner) ==
    /\ resolution_stack # <<>>
    /\ Last(resolution_stack).effect = "barbed_wire"
    /\ Last(resolution_stack).controller_idx = owner
    /\ Last(resolution_stack).current_action_idx = 0
    /\ Last(resolution_stack).targets_chosen = <<>>
    /\ In(Last(resolution_stack).source_card, get_all_stable_cards(players[owner]))
    /\ ~neigh_chain_active
    /\ \A a \in Range(_get_effect_choice_actions(State)) :
          a.action_type = "CHOOSE_TARGET" /\ a.player_idx = owner
    /\ get_legal_actions(State).raised = "" =>
          \A a \in Range(get_legal_actions(State).actions) :
              a.action_type = "CHOOSE_TARGET"

\* the card the step resolves as played by the current player: played with
\* no chain opened, or the original card of a chain all have passed on after
\* an even number of counters
PlayedCard ==
    IF obs'.action = "PLAY_CARD" /\ ~neigh_chain_active /\ ~neigh_chain_active'
    THEN obs'.card
    ELSE IF /\ obs'.action = "PASS_NEIGH" /\ neigh_chain_active
            /\ ~neigh_chain_active' /\ chain.k % 2 = 0
    THEN chain.original
    ELSE NoCard

\* the Barbed Wires of a player, in the order of get_all_stable_cards
WiresOf(i) ==
    SelectSeq(get_all_stable_cards(players[i]), LAMBDA w : effect_id(w) = "barbed_wire")

\* C36: whenever a unicorn enters a player's stable by being played, stolen
\* or brought from the discard pile or the nursery, the tasks pushed are the
\* card's own ON_ENTER effect (unless the player is flagged unicorns_are_basic)
\* and then one task per Barbed Wire of that player; if the player has a
\* Barbed Wire, its task is on top of the stack when the call returns, awaiting
\* that player's target choice, and only target choices are legal.
EnterPushesOwnAndWire ==
    /\ [](raised = "" =>
            \A k \in DOMAIN obs.steps :
                obs.steps[k].action_type \in {"STEAL", "BRING_TO_STABLE"} =>
                    \A e \in obs.steps[k].entered :
                        is_unicorn(e.card) =>
                            /\ TaskIds(obs.steps[k].tasks)
                                 = EnterTasks(e.card, e.owner, e.basic, e.wires)
                            /\ e.wires # <<>> =>
                                  /\ k = Len(obs.steps)
                                  /\ WireAwaitsChoice(e.owner))
    /\ [][(PlayedCard # NoCard /\ is_unicorn(PlayedCard) /\ raised' = "") =>
            LET due == EnterTasks(PlayedCard, current_player_idx,
                                  players[current_player_idx].unicorns_are_basic,
                                  WiresOf(current_player_idx))
            IN  /\ Len(obs'.pushed) >= Len(due)
                /\ \A k \in DOMAIN due : obs'.pushed[k] = due[k][1]
                /\ WiresOf(current_player_idx) # <<>> =>
                      /\ TaskIds(resolution_stack') = TaskIds(resolution_stack) \o due
                      /\ WireAwaitsChoice(current_player_idx)']_vars

\* C36, witness: a stolen unicorn with an ON_ENTER effect has entered the
\* stable of a player who has a Barbed Wire: both tasks were pushed and the
\* Barbed Wire's is on top
StolenIntoWire ==
    /\ raised = ""
    /\ obs.steps # <<>>
    /\ Last(obs.steps).action_type = "STEAL"
    /\ \E e \in Last(obs.steps).entered :
          /\ e.wires # <<>>
          /\ Len(Last(obs.steps).tasks) = 2
          /\ WireAwaitsChoice(e.owner)

\* C37: once a winner is set and the phase is GAME_OVER, no further action
\* that get_legal_actions returns or that chooses a target for a pending task
\* changes the winner or the phase, whatever was pending when the win was
\* detected.
WinnerIsFinal ==
    [][(winner # NoPlayer /\ phase = "GAME_OVER")
       => (winner' = winner /\ phase' = "GAME_OVER")]_vars

\* C37, witness: after the win was detected with a task pending, a target was
\* chosen and the winner has lost a unicorn; the winner is still the winner
StillWinnerBelowThreshold ==
    /\ raised = ""
    /\ winner # NoPlayer /\ phase = "GAME_OVER"
    /\ obs.action = "CHOOSE_TARGET"
    /\ unicorn_count(players[winner]) < unicorns_to_win(num_players)
    /\ check_win_condition(State) = NoPlayer

\* the top task waits for a target: it has a current action, the action needs
\* a target and none is stored for it
TopAwaitsTarget ==
    LET task == Last(resolution_stack)
        actions == EFFECT_REGISTRY(task.effect).actions
        idx == task.current_action_idx
    IN  /\ idx < Len(actions)
        /\ Len(task.targets_chosen) <= idx
        /\ needs_target(actions[idx + 1])

\* C38: every call leaves the resolution stack empty or suspended on a task
\* that waits for a target (process_stack has returned), and a caller who
\* keeps applying CHOOSE_TARGET actions to a pending task empties the stack
\* after finitely many choices, cascades of Barbed Wire and of Unicorn
\* Phoenix included.
StackDrains ==
    /\ [](TaskPending => /\ TopAwaitsTarget
                         /\ _get_effect_choice_actions(State) # <<>>)
    /\ (TaskPending ~> (resolution_stack = <<>>))

\* C38, witness: a drain during which tasks of Barbed Wire and of Unicorn
\* Phoenix were pushed has emptied the stack after several choices.
WireAndPhoenixDrained ==
    /\ raised = ""
    /\ resolution_stack = <<>>
    /\ drain.active
    /\ drain.choices >= 3
    /\ {"barbed_wire", "unicorn_phoenix"} \subseteq drain.effects

\* C39: while the chain is active get_legal_actions returns at least one
\* action, and every chain ends after finitely many responses, with
\* neigh_chain_active false and no card being played.
ChainTerminates ==
    /\ [](ChainPending => /\ get_legal_actions(State).raised = ""
                          /\ get_legal_actions(State).actions # <<>>)
    /\ (neigh_chain_active ~> (~neigh_chain_active /\ card_being_played = NoCard))

\* C40: while the chain is active the acting player is the current player,
\* has not passed and is offered no NEIGH and no PASS_NEIGH, and, unless an
\* exception escaped, a response of another player is what the chain waits
\* for.
ActorNeverResponds ==
    neigh_chain_active =>
        /\ chain.actor = current_player_idx
        /\ current_player_idx \notin players_passed_on_neigh
        /\ \A a \in Range(get_legal_actions(State).actions) :
               /\ a.action_type \in {"NEIGH", "PASS_NEIGH"}
               /\ a.player_idx # current_player_idx
        /\ raised = "" => get_legal_actions(State).actions # <<>>

\* C40, witness: another player has countered the card of the acting player,
\* who holds an INSTANT and may play instants, and the response is asked of
\* another player.
CounteredActorNotAsked ==
    /\ ChainPending
    /\ chain.k >= 1
    /\ ~players[current_player_idx].cannot_play_instants
    /\ HasInstant(players[current_player_idx])
    /\ \E a \in Range(get_legal_actions(State).actions) :
           a.player_idx # current_player_idx

=============================================================================
